---- MODULE Spec2Model ----
(***************************************************************************)
(* Lab-note evaluation pipeline of eval/eval_lab_note_generation/          *)
(* evaluator.py: the benchmark error list and the AI step list are         *)
(* outer-joined on the step number, every row is identified and            *)
(* classified, and the classified table is reduced to a summary.           *)
(*                                                                         *)
(* A table (pandas DataFrame) is a sequence of rows; a row is a function   *)
(* from column names to cell values.  A missing cell (NaN / None) is the   *)
(* value NaN, which is a different value from the string "N/A".            *)
(* Rates are Python floats; they are modelled as exact fractions in        *)
(* lowest terms (the counts are small, so rounding never moves a rate      *)
(* across 0 or 1 and never makes two different fractions equal).           *)
(***************************************************************************)
EXTENDS Integers, Sequences, FiniteSets, TLC

VARIABLES
    pc,           \* position inside _run_single_evaluation
    error_dict,   \* ast.literal_eval(row["error_dict"]): the benchmark list
    ai_steps,     \* error_response.steps: the AI step list
    df_errors,    \* the merged table
    summary_dict, \* generate_error_summary(df_errors)
    filtered_dict, \* remove_zeros(summary_dict)
    exc,          \* exception raised inside _process_errors_dataframes
    index,        \* evaluate_lab_notes: eval sets (rows of the csv) done
    all_results,  \* evaluate_lab_notes: the results of the runs so far
    final_metrics, \* what run_complete_analysis returned
    database,     \* the committed tables of database.db
    transaction,  \* the tables as the open connection sees them
    session_data, \* the argument of insert_performance_session
    performance_id, \* cursor.lastrowid of the performance_data insert
    file_ids,     \* _process_raw_files: the ids collected so far
    result,       \* what insert_performance_session returned
    database_before, \* the committed tables when the call began
    timeout, \* upload_video_and_wait: the timeout argument
    check_interval, \* upload_video_and_wait: the check_interval argument
    video_file, \* video_file.state.name
    elapsed, \* time.monotonic() - start_time
    raised, \* the exception upload_video_and_wait raised
    calls, \* create_database: the calls made so far
    db_exists, \* create_database: DATABASE_PATH.exists() at line 66
    num_runs, \* evaluate_lab_notes: the num_runs argument
    total_eval_sets, \* evaluate_lab_notes: len(df_benchmark_data)
    run, \* evaluate_lab_notes: the run number of the inner loop
    eval_set_results, \* evaluate_lab_notes: the results of the current row
    final_output_file, \* all_eval_sets_all_runs.json
    log, \* the (row, run) pairs that _run_single_evaluation logged as failed
    file_actions, \* _process_raw_files: the actions reported so far
    num_cases, \* _patched_evaluate_eval_set: len(eval_case_responses_list)
    num_metrics, \* _patched_evaluate_eval_set: len(criteria)
    evaluations, \* the evaluation_result of every evaluate_invocations call so far
    failures, \* _patched_evaluate_eval_set: the failures list
    eval_raised, \* the exception _patched_evaluate_eval_set raised
    cumulative_total_videos, \* ProtocolTitleRougeEvaluator.cumulative_total_videos
    cumulative_passed_count, \* ProtocolTitleRougeEvaluator.cumulative_passed_count
    cumulative_total_score, \* ProtocolTitleRougeEvaluator.cumulative_total_score
    invocations, \* the evaluate_invocations calls: arguments, locals and position of each
    benchmark_csv, \* the eval_set_name column of benchmark_data.csv
    existing_eval_sets, \* get_existing_eval_sets(BENCHMARK_CSV_PATH)
    eval_cases, \* eval_set['eval_cases'] of the input file
    newly_extracted_data \* extract_data_from_evalset: the eval_set_name of each new record

eval_vars == <<error_dict, ai_steps, df_errors, summary_dict, filtered_dict, exc>>
analysis_vars == <<index, all_results, final_metrics>>
db_vars == <<database, transaction, session_data, performance_id, file_ids,
             result, database_before>>

\* The variables of the other programs, one tuple for each.
upload_vars == <<timeout, check_interval, video_file, elapsed, raised>>
create_vars == <<calls, db_exists>>
notes_vars == <<num_runs, total_eval_sets, run, eval_set_results, final_output_file, log>>
files_vars == <<file_actions>>
evalset_vars == <<num_cases, num_metrics, evaluations, failures, eval_raised>>
stats_vars == <<cumulative_total_videos, cumulative_passed_count, cumulative_total_score, invocations>>
converter_vars == <<benchmark_csv, existing_eval_sets, eval_cases, newly_extracted_data>>

rest_vars == <<upload_vars,
               create_vars,
               notes_vars,
               files_vars,
               evalset_vars,
               stats_vars,
               converter_vars>>

vars == <<pc, eval_vars, analysis_vars, db_vars, rest_vars>>

\* The variables of the other programs without those of one.
upload_others == <<create_vars, notes_vars, files_vars,
                    evalset_vars, stats_vars, converter_vars>>
create_others == <<upload_vars, notes_vars, files_vars,
                    evalset_vars, stats_vars, converter_vars>>
notes_others == <<upload_vars, create_vars, files_vars,
                   evalset_vars, stats_vars, converter_vars>>
files_others == <<upload_vars, create_vars, notes_vars,
                   evalset_vars, stats_vars, converter_vars>>
evalset_others == <<upload_vars, create_vars, notes_vars,
                     files_vars, stats_vars, converter_vars>>
stats_others == <<upload_vars, create_vars, notes_vars,
                   files_vars, evalset_vars, converter_vars>>
converter_others == <<upload_vars, create_vars, notes_vars,
                       files_vars, evalset_vars, stats_vars>>

\* No call of upload_video_and_wait has begun.
UploadIdle ==
    /\ timeout = <<>>
    /\ check_interval = 0
    /\ video_file = ""
    /\ elapsed = 0
    /\ raised = ""

\* No call of create_database has begun.
CreateIdle ==
    /\ calls = 0
    /\ db_exists = FALSE

\* The loops of evaluate_lab_notes have not begun.
NotesIdle ==
    /\ num_runs = 0
    /\ total_eval_sets = 0
    /\ run = 0
    /\ eval_set_results = <<>>
    /\ final_output_file = <<>>
    /\ log = {}

\* _process_raw_files has not begun.
FilesIdle ==
    /\ file_actions = <<>>

\* No call of _patched_evaluate_eval_set has begun.
EvalsetIdle ==
    /\ num_cases = 0
    /\ num_metrics = 0
    /\ evaluations = <<>>
    /\ failures = <<>>
    /\ eval_raised = ""

\* No evaluate_invocations call has been made.
StatsIdle ==
    /\ cumulative_total_videos = 0
    /\ cumulative_passed_count = 0
    /\ cumulative_total_score = 0
    /\ invocations = <<>>

\* No converter run has begun.
ConverterIdle ==
    /\ benchmark_csv = <<>>
    /\ existing_eval_sets = {}
    /\ eval_cases = <<>>
    /\ newly_extracted_data = <<>>

RestIdle ==
    /\ UploadIdle
    /\ CreateIdle
    /\ NotesIdle
    /\ FilesIdle
    /\ EvalsetIdle
    /\ StatsIdle
    /\ ConverterIdle

\* Largest step number of an input list.
MaxStep == 3

\* A missing cell of a DataFrame (NaN), or None in the benchmark list.
NaN == "<NaN>"

\* A column that has not been added to the table yet.
NoColumn == "<no column>"

\* No summary computed yet: the empty mapping.
NoSummary == <<>>

----------------------------------------------------------------------------
(* Cell values the single-row inputs are drawn from. *)

\* "Unclear" stands for any string outside the vocabulary of a column.
WideBenchmarkValues == {"Error", "No Error", NaN, "Unclear"}
WideClassValues == {"N/A", "Omitted", "Addition", NaN}
WideAIResponseValues == {"Error", "No Error", "N/A", "Unclear"}
AIClassValues == {"N/A", "Omitted", "Addition"}

BenchmarkEntry(s, b, c, k) ==
    ("Step" :> s) @@ ("Benchmark" :> b) @@ ("Class" :> c) @@ ("Skill" :> k)

\* StepResult.model_dump(): the fields step, ai_response, ai_class.
StepResult(s, r, c) == ("step" :> s) @@ ("ai_response" :> r) @@ ("ai_class" :> c)

----------------------------------------------------------------------------
(* Fractions. *)

RECURSIVE GCD(_, _)
GCD(a, b) == IF b = 0 THEN a ELSE GCD(b, a % b)

\* n / d for d > 0 and n >= 0, in lowest terms.
Frac(n, d) == LET g == GCD(n, d) IN [num |-> n \div g, den |-> d \div g]

Zero == Frac(0, 1)

FracMul(x, y) == Frac(x.num * y.num, x.den * y.den)

FracAdd(x, y) == Frac(x.num * y.den + y.num * x.den, x.den * y.den)

\* x / y for y > 0.
FracDiv(x, y) == Frac(x.num * y.den, x.den * y.num)

FracLeq(x, y) == x.num * y.den <= y.num * x.den

Whole(n) == Frac(n, 1)

----------------------------------------------------------------------------
(* eval_analysis_data.py *)

SKILL_TYPES ==
    <<"SpatialOrientation", "SpatialResolution", "GeneralKnowledge", "Fast",
      "ProteomicsKnowledge">>

ERROR_TYPES_IDS == <<"Omitted", "Error", "Addition", "Deviation", "Deviation & Error">>

Range(s) == {s[i] : i \in DOMAIN s}

----------------------------------------------------------------------------
(* The two row-wise passes. *)

isna(v) == v = NaN

\* Mutant of identify_error_type: a missed error is reported as a false alarm.
identify_error_type_missed_as_fp(row) ==
    LET benchmark == row["Benchmark"]
        ai_response == row["AI Response"]
        ai_class == row["AI Class"]
        benchmark_class == row["Class"]
    IN  IF isna(benchmark)
        THEN IF ai_class = "Addition" THEN "Addition by model"
             ELSE IF benchmark_class = "Addition" /\ ai_class = "N/A" THEN "False Negative"
             ELSE "Unknown"
        ELSE IF benchmark = "No Error"
        THEN IF ai_response = "No Error" THEN "No Error (Correctly Identified)"
             ELSE IF ai_response = "Error" THEN "False Positive"
             ELSE "Unknown"
        ELSE IF benchmark = "Error"
        THEN IF ai_response = "Error" THEN "Error (Correctly Identified)"
             ELSE IF ai_response = "No Error" THEN "False Positive"
             ELSE "Unknown"
        ELSE "Unknown"

identify_error_type(row) ==
    LET benchmark == row["Benchmark"]
        ai_response == row["AI Response"]
        ai_class == row["AI Class"]
        benchmark_class == row["Class"]
    IN  IF isna(benchmark)
        THEN IF ai_class = "Addition" THEN "Addition by model"
             ELSE IF benchmark_class = "Addition" /\ ai_class = "N/A" THEN "False Negative"
             ELSE "Unknown"
        ELSE IF benchmark = "No Error"
        THEN IF ai_response = "No Error" THEN "No Error (Correctly Identified)"
             ELSE IF ai_response = "Error" THEN "False Positive"
             ELSE "Unknown"
        ELSE IF benchmark = "Error"
        THEN IF ai_response = "Error" THEN "Error (Correctly Identified)"
             ELSE IF ai_response = "No Error" THEN "False Negative"
             ELSE "Unknown"
        ELSE "Unknown"

\* Mutant of classify_error_type: the classes are compared on every row.
classify_error_type_unconditioned(row) ==
    IF row["Class"] = row["AI Class"] /\ ~isna(row["Class"])
    THEN "correct"
    ELSE "incorrect"

\* Mutant of classify_error_type: the benchmark class is compared with the
\* AI's error/no-error answer.
classify_error_type_wrong_column(row) ==
    IF row["Identification"] = "Error (Correctly Identified)"
    THEN IF row["Class"] = row["AI Response"] /\ ~isna(row["Class"])
         THEN "correct"
         ELSE "incorrect"
    ELSE "N/A"

\* NaN == NaN is False in Python: two missing cells are not the same string.
classify_error_type(row) ==
    IF row["Identification"] = "Error (Correctly Identified)"
    THEN IF row["Class"] = row["AI Class"] /\ ~isna(row["Class"])
         THEN "correct"
         ELSE "incorrect"
    ELSE "N/A"

----------------------------------------------------------------------------
(* DataFrame.merge(on="Step", how="outer"): one row per pair of entries    *)
(* with the same step, an entry without partner kept once with missing     *)
(* cells on the other side, rows ordered by the key.                       *)

MergedRow(s, b, c, k, r, a) ==
    ("Step" :> s) @@ ("Benchmark" :> b) @@ ("Class" :> c) @@ ("Skill" :> k)
    @@ ("AI Response" :> r) @@ ("AI Class" :> a)
    @@ ("Identification" :> NoColumn) @@ ("Classification" :> NoColumn)

LeftOnly(l) == MergedRow(l["Step"], l["Benchmark"], l["Class"], l["Skill"], NaN, NaN)

RightOnly(r) == MergedRow(r["step"], NaN, NaN, NaN, r["ai_response"], r["ai_class"])

Both(l, r) ==
    MergedRow(l["Step"], l["Benchmark"], l["Class"], l["Skill"],
              r["ai_response"], r["ai_class"])

RowsForKey(k, left, right) ==
    LET IsL(e) == e["Step"] = k
        IsR(e) == e["step"] = k
        L == SelectSeq(left, IsL)
        R == SelectSeq(right, IsR)
    IN  IF R = <<>> THEN [i \in 1..Len(L) |-> LeftOnly(L[i])]
        ELSE IF L = <<>> THEN [i \in 1..Len(R) |-> RightOnly(R[i])]
        ELSE [n \in 1..(Len(L) * Len(R)) |->
                 Both(L[((n - 1) \div Len(R)) + 1], R[((n - 1) % Len(R)) + 1])]

SetMin(S) == CHOOSE x \in S : \A y \in S : x <= y

RECURSIVE MergeKeys(_, _, _)
MergeKeys(keys, left, right) ==
    IF keys = {} THEN <<>>
    ELSE LET k == SetMin(keys)
         IN  RowsForKey(k, left, right) \o MergeKeys(keys \ {k}, left, right)

OuterMerge(left, right) ==
    MergeKeys({left[i]["Step"] : i \in DOMAIN left}
                  \cup {right[i]["step"] : i \in DOMAIN right},
              left, right)

----------------------------------------------------------------------------
(* The aggregator. *)

\* len(df[df[column] == value])
\* Mutant of CountEq: a run of equal adjacent cells counts once.
CountEq_runs(df, column, value) ==
    Cardinality({i \in DOMAIN df :
                    /\ df[i][column] = value
                    /\ i = 1 \/ df[i - 1][column] # value})

CountEq(df, column, value) == Cardinality({i \in DOMAIN df : df[i][column] = value})

\* Mutant of get_counts: the count of a class is the sum of its skill counts.
get_counts_class_from_skills(df, prefix) ==
    LET classes == Range(ERROR_TYPES_IDS)
        skills == Range(SKILL_TYPES)
        ClassKey(c) == prefix \o " " \o c
        SkillKey(c, s) == prefix \o " " \o c \o " " \o s
        classKeys == {ClassKey(c) : c \in classes}
        skillKeys == {SkillKey(p[1], p[2]) : p \in classes \X skills}
        per_skill ==
            [k \in skillKeys |->
                LET p == CHOOSE q \in classes \X skills : SkillKey(q[1], q[2]) = k
                IN  Whole(Cardinality({i \in DOMAIN df :
                        df[i]["Class"] = p[1] /\ df[i]["Skill"] = p[2]}))]
        per_class ==
            [k \in classKeys |->
                LET c == CHOOSE q \in classes : ClassKey(q) = k
                IN  Whole(Cardinality({i \in DOMAIN df :
                        df[i]["Class"] = c /\ df[i]["Skill"] \in skills}))]
    IN  per_skill @@ per_class

get_counts(df, prefix) ==
    LET classes == Range(ERROR_TYPES_IDS)
        skills == Range(SKILL_TYPES)
        ClassKey(c) == prefix \o " " \o c
        SkillKey(c, s) == prefix \o " " \o c \o " " \o s
        classKeys == {ClassKey(c) : c \in classes}
        skillKeys == {SkillKey(p[1], p[2]) : p \in classes \X skills}
        per_skill ==
            [k \in skillKeys |->
                LET p == CHOOSE q \in classes \X skills : SkillKey(q[1], q[2]) = k
                IN  Whole(Cardinality({i \in DOMAIN df :
                        df[i]["Class"] = p[1] /\ df[i]["Skill"] = p[2]}))]
        per_class ==
            [k \in classKeys |->
                LET c == CHOOSE q \in classes : ClassKey(q) = k
                IN  Whole(CountEq(df, "Class", c))]
    IN  per_skill @@ per_class

\* Mutant of base_counts: the model's additions are left out of the total.
base_counts_total_without_additions(df) ==
    [ total_evaluated_steps |->
          Len(df) - CountEq(df, "Identification", "Addition by model"),
      addition_by_model |-> CountEq(df, "Identification", "Addition by model"),
      tp |-> CountEq(df, "Identification", "Error (Correctly Identified)"),
      tn |-> CountEq(df, "Identification", "No Error (Correctly Identified)"),
      fp |-> CountEq(df, "Identification", "False Positive"),
      fn |-> CountEq(df, "Identification", "False Negative"),
      correctly_classified_errors |-> CountEq(df, "Classification", "correct") ]

\* Mutant of base_counts: a step added by the model counts as a missed error.
base_counts_additions_as_fn(df) ==
    [ total_evaluated_steps |-> Len(df),
      addition_by_model |-> CountEq(df, "Identification", "Addition by model"),
      tp |-> CountEq(df, "Identification", "Error (Correctly Identified)"),
      tn |-> CountEq(df, "Identification", "No Error (Correctly Identified)"),
      fp |-> CountEq(df, "Identification", "False Positive"),
      fn |-> CountEq(df, "Identification", "False Negative")
                 + CountEq(df, "Identification", "Addition by model"),
      correctly_classified_errors |-> CountEq(df, "Classification", "correct") ]

\* Mutant of base_counts: an unidentified row counts as a missed error.
base_counts_unknown_as_fn(df) ==
    [ total_evaluated_steps |-> Len(df),
      addition_by_model |-> CountEq(df, "Identification", "Addition by model"),
      tp |-> CountEq(df, "Identification", "Error (Correctly Identified)"),
      tn |-> CountEq(df, "Identification", "No Error (Correctly Identified)"),
      fp |-> CountEq(df, "Identification", "False Positive"),
      fn |-> CountEq(df, "Identification", "False Negative")
                 + CountEq(df, "Identification", "Unknown"),
      correctly_classified_errors |-> CountEq(df, "Classification", "correct") ]

\* Mutant of base_counts: every row whose two classes agree counts as a
\* correctly classified error.
base_counts_correct_any_match(df) ==
    [ total_evaluated_steps |-> Len(df),
      addition_by_model |-> CountEq(df, "Identification", "Addition by model"),
      tp |-> CountEq(df, "Identification", "Error (Correctly Identified)"),
      tn |-> CountEq(df, "Identification", "No Error (Correctly Identified)"),
      fp |-> CountEq(df, "Identification", "False Positive"),
      fn |-> CountEq(df, "Identification", "False Negative"),
      correctly_classified_errors |->
          Cardinality({i \in DOMAIN df : df[i]["Class"] = df[i]["AI Class"]}) ]

\* Lines 208-218: the counts every rate is derived from.
base_counts(df) ==
    [ total_evaluated_steps |-> Len(df),
      addition_by_model |-> CountEq(df, "Identification", "Addition by model"),
      tp |-> CountEq(df, "Identification", "Error (Correctly Identified)"),
      tn |-> CountEq(df, "Identification", "No Error (Correctly Identified)"),
      fp |-> CountEq(df, "Identification", "False Positive"),
      fn |-> CountEq(df, "Identification", "False Negative"),
      correctly_classified_errors |-> CountEq(df, "Classification", "correct") ]

\* Mutant of rate: the default of an undefined rate is 1.
rate_default_one(n, d) == IF d > 0 THEN Frac(n, d) ELSE Frac(1, 1)

\* `n / d if d > 0 else 0`
rate(n, d) == IF d > 0 THEN Frac(n, d) ELSE Zero

generate_error_summary(df) ==
    LET c == base_counts(df)
        total_evaluated_steps == c.total_evaluated_steps
        addition_by_model == c.addition_by_model
        steps_evaluated_minus_added_by_ai == total_evaluated_steps - addition_by_model
        tp == c.tp
        tn == c.tn
        fp == c.fp
        fn == c.fn
        total_errors_analyzed == tp + fn
        correctly_classified_errors == c.correctly_classified_errors
        precision == rate(tp, tp + fp)
        recall == rate(tp, tp + fn)
        specificity == rate(tn, tn + fp)
        accuracy == rate(tp + tn, tp + tn + fp + fn)
        f1_score ==
            IF FracAdd(precision, recall).num > 0
            THEN FracDiv(FracMul(Whole(2), FracMul(precision, recall)),
                         FracAdd(precision, recall))
            ELSE Zero
        balanced_accuracy == FracDiv(FracAdd(recall, specificity), Whole(2))
        classification_accuracy == rate(correctly_classified_errors, tp)
        IsTP(r) == r["Identification"] = "Error (Correctly Identified)"
        NotAdded(r) == r["Identification"] # "Addition by model"
        error_correctly_identified == SelectSeq(df, IsTP)
        possible_error == SelectSeq(df, NotAdded)
        summary ==
            ("True Positives (TP) = Correct error identifications" :> Whole(tp))
            @@ ("True Negatives (TN) = Correct no error identifications" :> Whole(tn))
            @@ ("False Positives (fp)" :> Whole(fp))
            @@ ("False Negatives (fn)" :> Whole(fn))
            @@ ("Total steps evaluated" :> Whole(total_evaluated_steps))
            @@ ("Steps evaluated minus added by AI" :> Whole(steps_evaluated_minus_added_by_ai))
            @@ ("Addition by model" :> Whole(addition_by_model))
            @@ ("Errors evaluated" :> Whole(total_errors_analyzed))
            @@ ("Classification Accuracy" :> classification_accuracy)
            @@ ("Accuracy" :> accuracy)
            @@ ("Precision (Positive Predictive Value)" :> precision)
            @@ ("Recall (Sensitivity, True Positive Rate)" :> recall)
            @@ ("Specificity (True Negative Rate)" :> specificity)
            @@ ("F1 Score" :> f1_score)
            @@ ("Balanced Accuracy" :> balanced_accuracy)
            @@ ("False Positive Rate" :> rate(fp, fp + tn))
            @@ ("False Negative Rate" :> rate(fn, tp + fn))
            @@ ("False Discovery Rate" :> rate(fp, tp + fp))
            @@ ("False Omission Rate" :> rate(fn, tn + fn))
            @@ ("Positive Predictive Value" :> precision)
            @@ ("Negative Predictive Value" :> rate(tn, tn + fn))
            @@ ("Total errors analyzed" :> Whole(total_errors_analyzed))
            @@ ("Correctly classified errors" :> Whole(correctly_classified_errors))
    \* dict.update: a key of the later mapping wins.
    IN  get_counts(possible_error, "All Type")
        @@ get_counts(error_correctly_identified, "Type")
        @@ summary

(* Values of a nested mapping: a number is a fraction [num, den], a string  *)
(* is [str |-> s], a boolean is [bool |-> b], and a mapping (dict) is a     *)
(* function from its keys to values.  No mapping of the model has the keys  *)
(* of one of the three leaf records.                                        *)

Str(s) == [str |-> s]

Bool(b) == [bool |-> b]

\* isinstance(d, dict)
IsDict(d) == DOMAIN d \notin {{"num", "den"}, {"str"}, {"bool"}}

\* v == 0 in Python: true of 0 and 0.0, and of False, which is the integer 0;
\* false of a string and of a mapping.
EqualsZero(v) ==
    IF IsDict(v) THEN FALSE
    ELSE IF DOMAIN v = {"num", "den"} THEN v.num = 0
    ELSE IF DOMAIN v = {"bool"} THEN v.bool = FALSE
    ELSE FALSE

\* v != {}
NotEmptyDict(v) == ~IsDict(v) \/ DOMAIN v # {}

\* Mutant of remove_zeros: a mapping is tested for emptiness before it is
\* cleaned, not after.
RECURSIVE remove_zeros_test_before_cleaning(_)
remove_zeros_test_before_cleaning(d) ==
    IF ~IsDict(d) THEN d
    ELSE LET kept == {k \in DOMAIN d : ~EqualsZero(d[k]) /\ NotEmptyDict(d[k])}
         IN  [k \in kept |-> remove_zeros_test_before_cleaning(d[k])]

\* Mutant of remove_zeros: every falsy value is dropped (`if not v`).
RECURSIVE remove_zeros_drops_falsy(_)
remove_zeros_drops_falsy(d) ==
    IF ~IsDict(d) THEN d
    ELSE LET falsy(v) == EqualsZero(v) \/ (~IsDict(v) /\ DOMAIN v = {"str"} /\ v.str = "")
             kept == {k \in DOMAIN d :
                         /\ ~falsy(d[k])
                         /\ NotEmptyDict(remove_zeros_drops_falsy(d[k]))}
         IN  [k \in kept |-> remove_zeros_drops_falsy(d[k])]

\* Mutant of remove_zeros: only the top level is cleaned.
remove_zeros_top_level_only(d) ==
    IF ~IsDict(d) THEN d
    ELSE [k \in {j \in DOMAIN d : ~EqualsZero(d[j]) /\ NotEmptyDict(d[j])} |-> d[k]]

RECURSIVE remove_zeros(_)
remove_zeros(d) ==
    IF ~IsDict(d) THEN d
    ELSE LET kept == {k \in DOMAIN d :
                         ~EqualsZero(d[k]) /\ NotEmptyDict(remove_zeros(d[k]))}
         IN  [k \in kept |-> remove_zeros(d[k])]

----------------------------------------------------------------------------
(* Inputs. *)

\* What the two lists hold for step s of a table: a pair of the benchmark
\* entries and the AI entries of that step, one case for every outcome of the
\* merge and of the two passes.
StepCases(s) ==
    LET no_error == <<BenchmarkEntry(s, "No Error", "N/A", "N/A")>>
        omitted == <<BenchmarkEntry(s, "Error", "Omitted", "GeneralKnowledge")>>
        addition == <<BenchmarkEntry(s, "Error", "Addition", "Fast")>>
        no_skill == <<BenchmarkEntry(s, "Error", "Omitted", NaN)>>
        no_benchmark == <<BenchmarkEntry(s, NaN, "Addition", "Fast")>>
        ai_omitted == <<StepResult(s, "Error", "Omitted")>>
        ai_addition == <<StepResult(s, "Error", "Addition")>>
        ai_no_error == <<StepResult(s, "No Error", "N/A")>>
        ai_missing == <<StepResult(s, "N/A", "N/A")>>
    IN  { <<<<>>, <<>>>>,
          <<no_error, ai_no_error>>,
          <<no_error, ai_omitted>>,
          <<omitted, ai_omitted>>,
          <<addition, ai_omitted>>,
          <<no_skill, ai_no_error>>,
          <<no_benchmark, ai_missing>>,
          <<omitted, ai_missing>>,
          <<omitted, <<>>>>,
          <<<<>>, ai_addition>>,
          <<<<>>, ai_no_error>> }

WideBenchmark(s) ==
    { BenchmarkEntry(s, b, c, k) :
        b \in WideBenchmarkValues, c \in WideClassValues, k \in {"N/A", "Fast", NaN} }

WideStepResult(s) ==
    { StepResult(s, r, c) : r \in WideAIResponseValues, c \in AIClassValues }

\* The concatenation of side k (1: benchmark, 2: AI) of the cases chosen
\* for the steps 1..n.
RECURSIVE Side(_, _, _)
Side(k, n, cases) ==
    IF n = 0 THEN <<>> ELSE Side(k, n - 1, cases) \o cases[n][k]

WideCases(s) ==
    { <<b, a>> : b \in {<<>>} \cup {<<e>> : e \in WideBenchmark(s)},
                 a \in {<<>>} \cup {<<e>> : e \in WideStepResult(s)} }

\* No evaluation is running.
EvalIdle ==
    /\ error_dict = <<>>
    /\ ai_steps = <<>>
    /\ df_errors = <<>>
    /\ summary_dict = NoSummary
    /\ filtered_dict = NoSummary
    /\ exc = "none"

\* No analysis has run.
AnalysisIdle ==
    /\ index = 0
    /\ all_results = <<>>
    /\ final_metrics = NoSummary

\* No database call has begun.
DbIdle ==
    /\ database = <<>>
    /\ transaction = <<>>
    /\ session_data = <<>>
    /\ performance_id = 0
    /\ file_ids = <<>>
    /\ result = <<>>
    /\ database_before = <<>>

InitCommon ==
    /\ pc = "start"
    /\ df_errors = <<>>
    /\ summary_dict = NoSummary
    /\ filtered_dict = NoSummary
    /\ exc = "none"
    /\ AnalysisIdle
    /\ RestIdle
    /\ DbIdle

\* Tables of up to MaxStep steps.
InitTables ==
    /\ \E c \in [1..MaxStep -> UNION {StepCases(s) : s \in 1..MaxStep}] :
           /\ \A s \in 1..MaxStep : c[s] \in StepCases(s)
           /\ error_dict = Side(1, MaxStep, c)
           /\ ai_steps = Side(2, MaxStep, c)
    /\ InitCommon

\* One step, every combination of cell values.
InitRow ==
    /\ \E c \in [{1} -> WideCases(1)] :
           /\ error_dict = Side(1, 1, c)
           /\ ai_steps = Side(2, 1, c)
    /\ InitCommon

Init == InitTables \/ InitRow

----------------------------------------------------------------------------
(* _run_single_evaluation, from the call of _process_errors_dataframes on. *)

\* Lines 289-293.  pd.DataFrame([]) has no columns: naming three columns of
\* an empty AI table raises ValueError, and merging an empty benchmark table
\* on "Step" raises KeyError.
Merge ==
    /\ pc = "start"
    /\ IF ai_steps = <<>>
       THEN pc' = "failed" /\ exc' = "ValueError" /\ UNCHANGED df_errors
       ELSE IF error_dict = <<>>
       THEN pc' = "failed" /\ exc' = "KeyError" /\ UNCHANGED df_errors
       ELSE pc' = "merged" /\ df_errors' = OuterMerge(error_dict, ai_steps)
            /\ UNCHANGED exc
    /\ UNCHANGED <<error_dict, ai_steps, summary_dict, filtered_dict>>
    /\ UNCHANGED <<analysis_vars, db_vars, rest_vars>>

\* Line 295: df.apply(identify_error_type, axis=1) becomes the column.
Identify ==
    /\ pc = "merged"
    /\ df_errors' = [i \in DOMAIN df_errors |->
                        [df_errors[i] EXCEPT !["Identification"] =
                                                 identify_error_type(df_errors[i])]]
    /\ pc' = "identified"
    /\ UNCHANGED <<error_dict, ai_steps, summary_dict, filtered_dict, exc>>
    /\ UNCHANGED <<analysis_vars, db_vars, rest_vars>>

\* Line 296: df.apply(classify_error_type, axis=1) becomes the column.
Classify ==
    /\ pc = "identified"
    /\ df_errors' = [i \in DOMAIN df_errors |->
                        [df_errors[i] EXCEPT !["Classification"] =
                                                 classify_error_type(df_errors[i])]]
    /\ pc' = "classified"
    /\ UNCHANGED <<error_dict, ai_steps, summary_dict, filtered_dict, exc>>
    /\ UNCHANGED <<analysis_vars, db_vars, rest_vars>>

\* Line 361.
Summarise ==
    /\ pc = "classified"
    /\ summary_dict' = generate_error_summary(df_errors)
    /\ pc' = "summarised"
    /\ UNCHANGED <<error_dict, ai_steps, df_errors, filtered_dict, exc>>
    /\ UNCHANGED <<analysis_vars, db_vars, rest_vars>>

\* Mutant of Prune: the summary is pruned in place, so the result holds the
\* pruned mapping twice.
Prune_in_place ==
    /\ pc = "summarised"
    /\ filtered_dict' = remove_zeros(summary_dict)
    /\ summary_dict' = remove_zeros(summary_dict)
    /\ pc' = "done"
    /\ UNCHANGED <<error_dict, ai_steps, df_errors, exc>>
    /\ UNCHANGED <<analysis_vars, db_vars, rest_vars>>

\* Line 362.
Prune ==
    /\ pc = "summarised"
    /\ filtered_dict' = remove_zeros(summary_dict)
    /\ pc' = "done"
    /\ UNCHANGED <<error_dict, ai_steps, df_errors, summary_dict, exc>>
    /\ UNCHANGED <<analysis_vars, db_vars, rest_vars>>

Next == Merge \/ Identify \/ Classify \/ Summarise \/ Prune

Spec == Init /\ [][Next]_vars

----------------------------------------------------------------------------
(* Properties. *)

Merged == pc \in {"merged", "identified", "classified", "summarised", "done"}
Identified == pc \in {"identified", "classified", "summarised", "done"}
Classified == pc \in {"classified", "summarised", "done"}
Summarised == pc \in {"summarised", "done"}

TP == "Error (Correctly Identified)"
TN == "No Error (Correctly Identified)"
FP == "False Positive"
FN == "False Negative"
Added == "Addition by model"
Unknown == "Unknown"

Labels == {TP, TN, FP, FN, Added, Unknown}

BenchmarkSteps == {error_dict[i]["Step"] : i \in DOMAIN error_dict}
AISteps == {ai_steps[i]["step"] : i \in DOMAIN ai_steps}

\* Number of rows of the table with the given identification.
Rows(label) == Cardinality({i \in DOMAIN df_errors : df_errors[i]["Identification"] = label})

\* The integer held by a count of the summary.
Count(key) == summary_dict[key].num

One == Frac(1, 1)

\* The decision table of the identification classifier, one line per case.
TableLabel(r) ==
    CASE r["Benchmark"] = NaN /\ r["AI Class"] = "Addition" -> Added
      [] r["Benchmark"] = NaN /\ r["AI Class"] # "Addition"
           /\ r["Class"] = "Addition" /\ r["AI Class"] = "N/A" -> FN
      [] r["Benchmark"] = "No Error" /\ r["AI Response"] = "No Error" -> TN
      [] r["Benchmark"] = "No Error" /\ r["AI Response"] = "Error" -> FP
      [] r["Benchmark"] = "Error" /\ r["AI Response"] = "Error" -> TP
      [] r["Benchmark"] = "Error" /\ r["AI Response"] = "No Error" -> FN
      [] OTHER -> Unknown

\* C1: after the identification pass every row carries exactly the label its
\* Benchmark, AI Response, Class and AI Class select in the decision table,
\* which is one of the six labels.
C1_IdentificationFollowsTable ==
    Identified =>
        \A i \in DOMAIN df_errors :
            /\ df_errors[i]["Identification"] = TableLabel(df_errors[i])
            /\ df_errors[i]["Identification"] \in Labels

\* C1 witness: an identified table with a benchmark-less 'Addition' row the
\* AI answered "N/A" and an error the AI answered "No Error".
C1_Witness ==
    /\ pc = "identified"
    /\ \E i \in DOMAIN df_errors :
           /\ df_errors[i]["Benchmark"] = NaN
           /\ df_errors[i]["Class"] = "Addition"
           /\ df_errors[i]["AI Class"] = "N/A"
           /\ df_errors[i]["Identification"] = FN
    /\ \E i \in DOMAIN df_errors :
           /\ df_errors[i]["Benchmark"] = "Error"
           /\ df_errors[i]["AI Response"] = "No Error"
           /\ df_errors[i]["Identification"] = FN

\* C2 (as claimed): in the merged table a row whose step is only in the
\* benchmark list has AI Response "N/A" and AI Class "N/A".
C2_BenchmarkOnlyRowsAreNA ==
    Merged =>
        \A i \in DOMAIN df_errors :
            df_errors[i]["Step"] \notin AISteps =>
                /\ df_errors[i]["AI Response"] = "N/A"
                /\ df_errors[i]["AI Class"] = "N/A"

\* The lists of an input have no step twice.
NoDuplicateSteps ==
    /\ Cardinality(BenchmarkSteps) = Len(error_dict)
    /\ Cardinality(AISteps) = Len(ai_steps)

\* C3 (as claimed): for lists without duplicate steps, empty ones included,
\* the merge completes, and its table has one row for every step of either
\* list and no other row.
C3_OuterJoinComplete ==
    (NoDuplicateSteps /\ pc # "start") =>
        /\ pc # "failed"
        /\ \A s \in BenchmarkSteps \cup AISteps :
               Cardinality({i \in DOMAIN df_errors : df_errors[i]["Step"] = s}) = 1
        /\ \A i \in DOMAIN df_errors : df_errors[i]["Step"] \in BenchmarkSteps \cup AISteps

\* C4: the six identification counts add up to the total of the summary.
C4_ConfusionMatrixIdentity ==
    Summarised =>
        Count("True Positives (TP) = Correct error identifications")
          + Count("True Negatives (TN) = Correct no error identifications")
          + Count("False Positives (fp)")
          + Count("False Negatives (fn)")
          + Count("Addition by model")
          + Rows(Unknown)
        = Count("Total steps evaluated")

\* C4 witness: a summary of a table holding an addition, an unidentified row
\* and a row of the confusion matrix.
C4_Witness ==
    /\ pc = "summarised"
    /\ Rows(Added) > 0
    /\ Rows(Unknown) > 0
    /\ Rows(TP) + Rows(TN) + Rows(FP) + Rows(FN) > 0

\* C5: a row classified "correct" or "incorrect" is a correctly identified
\* error.
C5_ClassificationOnlyForTruePositives ==
    Classified =>
        \A i \in DOMAIN df_errors :
            df_errors[i]["Classification"] # "N/A" =>
                df_errors[i]["Identification"] = TP

\* C5 witness: a classified table with a "correct" row and a row that is no
\* true positive although its two classes agree.
C5_Witness ==
    /\ pc = "classified"
    /\ \E i \in DOMAIN df_errors : df_errors[i]["Classification"] = "correct"
    /\ \E i \in DOMAIN df_errors :
           /\ df_errors[i]["Identification"] # TP
           /\ df_errors[i]["Class"] = df_errors[i]["AI Class"]
           /\ df_errors[i]["Classification"] = "N/A"

\* C6: a correctly identified error is "correct" exactly when Class and
\* AI Class are the same string, and "incorrect" otherwise.
C6_CorrectIffSameClass ==
    Classified =>
        \A i \in DOMAIN df_errors :
            df_errors[i]["Identification"] = TP =>
                LET same == /\ df_errors[i]["Class"] # NaN
                            /\ df_errors[i]["Class"] = df_errors[i]["AI Class"]
                IN  df_errors[i]["Classification"] = IF same THEN "correct" ELSE "incorrect"

\* C6 witness: a true positive with equal classes and one with different
\* classes, both classified.
C6_Witness ==
    /\ pc = "classified"
    /\ \E i \in DOMAIN df_errors :
           /\ df_errors[i]["Identification"] = TP
           /\ df_errors[i]["Class"] = df_errors[i]["AI Class"]
           /\ df_errors[i]["Classification"] = "correct"
    /\ \E i \in DOMAIN df_errors :
           /\ df_errors[i]["Identification"] = TP
           /\ df_errors[i]["Class"] # df_errors[i]["AI Class"]
           /\ df_errors[i]["Classification"] = "incorrect"

\* The rates of summary s whose denominator is 0 for the counts given are 0.
ZeroDenominatorsGiveZero(s, tp, tn, fp, fn) ==
    /\ tp + fp = 0 => /\ s["Precision (Positive Predictive Value)"] = Zero
                      /\ s["False Discovery Rate"] = Zero
    /\ tp + fn = 0 => /\ s["Recall (Sensitivity, True Positive Rate)"] = Zero
                      /\ s["False Negative Rate"] = Zero
    /\ tn + fp = 0 => /\ s["Specificity (True Negative Rate)"] = Zero
                      /\ s["False Positive Rate"] = Zero
    /\ tn + fn = 0 => /\ s["False Omission Rate"] = Zero
                      /\ s["Negative Predictive Value"] = Zero
    /\ tp + tn + fp + fn = 0 => s["Accuracy"] = Zero
    /\ tp = 0 => /\ s["F1 Score"] = Zero
                 /\ s["Classification Accuracy"] = Zero

\* C7: the summary is produced for every table, and a rate whose denominator
\* is 0 is reported as 0; the same holds of the summary of the empty table.
C7_ZeroDenominatorRatesAreZero ==
    Summarised =>
        /\ summary_dict # NoSummary
        /\ ZeroDenominatorsGiveZero(summary_dict, Rows(TP), Rows(TN), Rows(FP), Rows(FN))
        /\ ZeroDenominatorsGiveZero(generate_error_summary(<<>>), 0, 0, 0, 0)

\* C7 witness: a summary of a table with false negatives and true negatives
\* but neither true nor false positives: precision, the false discovery
\* rate, F1 and the classification accuracy have denominator 0, the other
\* rates are defined.
C7_Witness ==
    /\ pc = "summarised"
    /\ Rows(TP) + Rows(FP) = 0
    /\ Rows(TN) > 0
    /\ Rows(FN) > 0

RateKeys ==
    { "Precision (Positive Predictive Value)",
      "Recall (Sensitivity, True Positive Rate)",
      "Specificity (True Negative Rate)",
      "Accuracy",
      "F1 Score",
      "Balanced Accuracy",
      "Classification Accuracy",
      "False Positive Rate",
      "False Negative Rate",
      "False Discovery Rate",
      "False Omission Rate",
      "Positive Predictive Value",
      "Negative Predictive Value" }

\* C8: every derived rate of the summary lies between 0 and 1.
C8_RatesWithinUnitInterval ==
    Summarised =>
        \A k \in RateKeys :
            /\ FracLeq(Zero, summary_dict[k])
            /\ FracLeq(summary_dict[k], One)

\* C8 witness: a summary with a rate strictly between 0 and 1 and a
\* classification accuracy of 1, of a table where further rows have equal
\* classes.
C8_Witness ==
    /\ pc = "summarised"
    /\ summary_dict["F1 Score"] \notin {Zero, One}
    /\ summary_dict["Classification Accuracy"] = One
    /\ \E i \in DOMAIN df_errors :
           /\ df_errors[i]["Identification"] # TP
           /\ df_errors[i]["Class"] = df_errors[i]["AI Class"]

\* Rows of steps only the AI listed, with AI Class 'Addition'.
AIOnlyAdditions ==
    {i \in DOMAIN df_errors :
        /\ df_errors[i]["Step"] \notin BenchmarkSteps
        /\ df_errors[i]["AI Class"] = "Addition"}

\* C9: a step only the AI listed, with class 'Addition', is identified
\* 'Addition by model'; 'Addition by model' counts the rows so identified,
\* 'Total steps evaluated' counts every row, 'Total errors analyzed' counts
\* the true positives and false negatives only and equals TP + FN, and
\* 'Steps evaluated minus added by AI' is the total minus the additions.
C9_AdditionsCounted ==
    /\ Identified => \A i \in AIOnlyAdditions : df_errors[i]["Identification"] = Added
    /\ Summarised =>
        /\ Count("Addition by model") = Rows(Added)
        /\ Count("Addition by model") >= Cardinality(AIOnlyAdditions)
        /\ Count("Total steps evaluated") = Len(df_errors)
        /\ Count("Total errors analyzed") = Rows(TP) + Rows(FN)
        /\ Count("Total errors analyzed")
             = Count("True Positives (TP) = Correct error identifications")
                 + Count("False Negatives (fn)")
        /\ Count("Steps evaluated minus added by AI")
             = Count("Total steps evaluated") - Count("Addition by model")

\* C9 witness: a summary of a table with a step only the AI listed as an
\* 'Addition' next to a true positive.
C9_Witness ==
    /\ pc = "summarised"
    /\ AIOnlyAdditions # {}
    /\ Rows(TP) > 0

\* The table without its row i.
WithoutRow(df, i) == [j \in 1..(Len(df) - 1) |-> IF j < i THEN df[j] ELSE df[j + 1]]

ConfusionKeys ==
    { "True Positives (TP) = Correct error identifications",
      "True Negatives (TN) = Correct no error identifications",
      "False Positives (fp)",
      "False Negatives (fn)",
      "Addition by model" }

\* C10: the summary of a table with an 'Unknown' row differs from the
\* summary of the table without that row by 1 in 'Total steps evaluated' and
\* not at all in TP, TN, FP, FN, 'Addition by model' and the derived rates;
\* the summary is produced whatever the number of 'Unknown' rows.
C10_UnknownRowOnlyRaisesTotal ==
    Summarised =>
        /\ summary_dict # NoSummary
        /\ \A i \in DOMAIN df_errors :
               df_errors[i]["Identification"] = Unknown =>
                   LET less == generate_error_summary(WithoutRow(df_errors, i))
                   IN  /\ Count("Total steps evaluated")
                            = less["Total steps evaluated"].num + 1
                       /\ \A k \in ConfusionKeys \cup RateKeys : summary_dict[k] = less[k]

\* C10 witness: a summary of a table with two 'Unknown' rows and rates that
\* are not 0.
C10_Witness ==
    /\ pc = "summarised"
    /\ Rows(Unknown) > 1
    /\ summary_dict["Accuracy"] # Zero
    /\ summary_dict["Recall (Sensitivity, True Positive Rate)"] # Zero

\* The rows of the subset a prefix of the breakdown stands for.
Subset(prefix) ==
    IF prefix = "Type"
    THEN {i \in DOMAIN df_errors : df_errors[i]["Identification"] = TP}
    ELSE {i \in DOMAIN df_errors : df_errors[i]["Identification"] # Added}

\* C11: for the prefixes 'Type' (true positives) and 'All Type' (every row
\* but the model's additions), '{prefix} C' is the number of rows of the
\* subset with Class C and '{prefix} C S' the number of those with Skill S
\* as well; a row without Skill is counted under its class and under no
\* skill of it.
C11_BreakdownCounts ==
    Summarised =>
        \A prefix \in {"Type", "All Type"} :
            \A c \in Range(ERROR_TYPES_IDS) :
                LET of_class == {i \in Subset(prefix) : df_errors[i]["Class"] = c}
                    no_skill == {i \in of_class :
                                    df_errors[i]["Skill"] \notin Range(SKILL_TYPES)}
                    by_skill ==
                        [s \in Range(SKILL_TYPES) |->
                            Count(prefix \o " " \o c \o " " \o s)]
                IN  /\ Count(prefix \o " " \o c) = Cardinality(of_class)
                    /\ \A s \in Range(SKILL_TYPES) :
                           by_skill[s] =
                               Cardinality({i \in of_class : df_errors[i]["Skill"] = s})
                    /\ by_skill["SpatialOrientation"] + by_skill["SpatialResolution"]
                         + by_skill["GeneralKnowledge"] + by_skill["Fast"]
                         + by_skill["ProteomicsKnowledge"]
                       = Cardinality(of_class) - Cardinality(no_skill)

\* C11 witness: a summary of a table with a true positive that has a skill,
\* an 'Omitted' row without Skill outside the true positives, and an
\* addition of the model.
C11_Witness ==
    /\ pc = "summarised"
    /\ \E i \in Subset("Type") : df_errors[i]["Skill"] \in Range(SKILL_TYPES)
    /\ \E i \in Subset("All Type") \ Subset("Type") :
           /\ df_errors[i]["Class"] = "Omitted"
           /\ df_errors[i]["Skill"] = NaN
    /\ Rows(Added) > 0

\* Row i has its Identification, its Classification.
HasIdentification(i) == df_errors[i]["Identification"] # NoColumn
HasClassification(i) == df_errors[i]["Classification"] # NoColumn

\* The keys of every summary.
SummaryKeys == DOMAIN generate_error_summary(<<>>)

\* C18: the stages of a run follow one another: the table is joined before
\* any label exists, every row is identified before any row is classified,
\* the summary exists only when every row has both labels, and the pruned
\* summary exists only beside the summary of the same table, whose non-zero
\* entries it repeats while the summary itself keeps its zero entries.
C18_StageOrder ==
    /\ pc = "start" => df_errors = <<>>
    /\ pc = "merged" =>
           \A i \in DOMAIN df_errors : ~HasIdentification(i) /\ ~HasClassification(i)
    /\ \A i \in DOMAIN df_errors :
           HasClassification(i) => \A j \in DOMAIN df_errors : HasIdentification(j)
    /\ pc # "done" => filtered_dict = NoSummary
    /\ pc \notin {"summarised", "done"} => summary_dict = NoSummary
    /\ pc \in {"summarised", "done"} =>
           /\ \A i \in DOMAIN df_errors : HasIdentification(i) /\ HasClassification(i)
           /\ DOMAIN summary_dict = SummaryKeys
           /\ Count("Total steps evaluated") = Len(df_errors)
    /\ pc = "done" =>
           /\ DOMAIN filtered_dict = {k \in DOMAIN summary_dict : summary_dict[k].num # 0}
           /\ \A k \in DOMAIN filtered_dict : filtered_dict[k] = summary_dict[k]

\* C18 witness: a finished run whose summary holds a zero entry that the
\* pruned summary lacks.
C18_Witness ==
    /\ pc = "done"
    /\ Len(df_errors) = MaxStep
    /\ Rows(TP) > 0
    /\ Rows(FN) > 0
    /\ Count("False Positives (fp)") = 0
    /\ "False Positives (fp)" \notin DOMAIN filtered_dict
    /\ filtered_dict["Total steps evaluated"] = Whole(MaxStep)

----------------------------------------------------------------------------
(* remove_zeros on nested mappings: the mapping is summary_dict, the pruned *)
(* mapping filtered_dict, as in lines 361-362.                              *)

\* Deepest nesting of an input mapping.
MaxDepth == 2

PruneKeys == {"a", "b"}

\* 0, a non-zero number, the empty string and False.
Leaves == {Whole(0), Whole(5), Str(""), Bool(FALSE)}

\* The mappings over PruneKeys nested at most depth levels in which key "b"
\* alone may hold a further mapping.
RECURSIVE Chains(_)
Chains(depth) ==
    IF depth = 0 THEN {}
    ELSE UNION {{m \in [S -> Leaves \cup Chains(depth - 1)] :
                    "a" \in S => ~IsDict(m["a"])} : S \in SUBSET PruneKeys}

\* The mappings over PruneKeys nested at most depth levels: either key may
\* hold a mapping at the top, a chain below.
Mappings(depth) ==
    UNION {[S -> Leaves \cup Chains(depth - 1)] : S \in SUBSET PruneKeys}

InitPrune ==
    /\ pc = "summarised"
    /\ summary_dict \in Mappings(MaxDepth)
    /\ filtered_dict = NoSummary
    /\ error_dict = <<>>
    /\ ai_steps = <<>>
    /\ df_errors = <<>>
    /\ exc = "none"
    /\ AnalysisIdle
    /\ RestIdle
    /\ DbIdle

\* remove_zeros applied to its own result.
PruneAgain ==
    /\ pc = "done"
    /\ filtered_dict' = remove_zeros(filtered_dict)
    /\ pc' = "pruned twice"
    /\ UNCHANGED <<error_dict, ai_steps, df_errors, summary_dict, exc>>
    /\ UNCHANGED <<analysis_vars, db_vars, rest_vars>>

NextPrune == Prune \/ PruneAgain

SpecPrune == InitPrune /\ [][NextPrune]_vars

Pruned == pc \in {"done", "pruned twice"}

\* The number 0 (0 or 0.0).
IsNumberZero(v) == ~IsDict(v) /\ DOMAIN v = {"num", "den"} /\ v.num = 0

\* No key of m, at any depth, has the value 0 or an empty mapping.
RECURSIVE NoZeroNoEmpty(_)
NoZeroNoEmpty(m) ==
    \A k \in DOMAIN m :
        /\ ~IsNumberZero(m[k])
        /\ IsDict(m[k]) => (DOMAIN m[k] # {} /\ NoZeroNoEmpty(m[k]))

\* Some key of m, at some depth, has the value 0 or a mapping that holds
\* nothing but such keys.
RECURSIVE HasZeroBelow(_)
HasZeroBelow(m) ==
    \E k \in DOMAIN m :
        IsDict(m[k]) /\ DOMAIN m[k] # {} /\ \A j \in DOMAIN m[k] : IsNumberZero(m[k][j])

\* C12: the pruned mapping has, at every depth, no key with value 0 and no
\* key with an empty mapping as value; a mapping emptied by the pruning of
\* its children is gone with its key.
C12_NoZeroAndNoEmptyMapping ==
    Pruned => NoZeroNoEmpty(filtered_dict)

\* C12 witness: a mapping with a 0 at the top, a nested mapping holding only
\* zeros, pruned to the empty mapping.
C12_Witness ==
    /\ pc = "done"
    /\ DOMAIN summary_dict = PruneKeys
    /\ IsNumberZero(summary_dict["a"])
    /\ HasZeroBelow(summary_dict)
    /\ filtered_dict = <<>>

\* The empty string or False.
IsFalsyNonNumber(v) == ~IsDict(v) /\ (v = Str("") \/ v = Bool(FALSE))

\* Every key of m with value "" or False is in out with that value, at
\* every depth.
RECURSIVE KeepsFalsy(_, _)
KeepsFalsy(m, out) ==
    \A k \in DOMAIN m :
        /\ IsFalsyNonNumber(m[k]) => (k \in DOMAIN out /\ out[k] = m[k])
        /\ IsDict(m[k]) => (k \in DOMAIN out => KeepsFalsy(m[k], out[k]))

\* C13 (as claimed): a key whose value is the empty string or False is in
\* the pruned mapping with the same value, at every depth.
C13_FalsyNonZeroKept ==
    pc = "done" => KeepsFalsy(summary_dict, filtered_dict)

\* A value that does not compare equal to 0: a non-zero number, a string, a
\* mapping.
ComparesNonZero(v) ==
    IsDict(v) \/ (~IsNumberZero(v) /\ v # Bool(FALSE))

\* Every key of m whose value does not compare equal to 0 is in out, at
\* every depth.
RECURSIVE KeepsNonZero(_, _)
KeepsNonZero(m, out) ==
    \A k \in DOMAIN m :
        ComparesNonZero(m[k]) =>
            /\ k \in DOMAIN out
            /\ IsDict(m[k]) => KeepsNonZero(m[k], out[k])

RECURSIVE HasSurvivor(_)
HasSurvivor(m) ==
    \E k \in DOMAIN m :
        IF IsDict(m[k]) THEN HasSurvivor(m[k]) ELSE ComparesNonZero(m[k])

\* Every key of m whose value is no mapping and does not compare equal to 0
\* is in out with the same value; a key whose value is a mapping is in out
\* exactly when that mapping holds such a value at some depth.
RECURSIVE KeepsLeaves(_, _)
KeepsLeaves(m, out) ==
    /\ DOMAIN out \subseteq DOMAIN m
    /\ \A k \in DOMAIN m :
        IF IsDict(m[k])
        THEN /\ k \in DOMAIN out <=> HasSurvivor(m[k])
             /\ k \in DOMAIN out => (IsDict(out[k]) /\ KeepsLeaves(m[k], out[k]))
        ELSE ComparesNonZero(m[k]) => (k \in DOMAIN out /\ out[k] = m[k])

C15_Idempotent ==
    pc = "pruned twice" => filtered_dict = remove_zeros(summary_dict)

\* C15 witness: pruned twice, a mapping whose nested mapping was emptied by
\* the first pruning while another key survived.
C15_Witness ==
    /\ pc = "pruned twice"
    /\ HasZeroBelow(summary_dict)
    /\ filtered_dict # <<>>
    /\ filtered_dict # summary_dict

----------------------------------------------------------------------------
(* generate_error_summary on the rows of a classified table in every order. *)

\* The cases of step s for the reordered tables: no entry at all, a true
\* negative, a true positive of the right and of the wrong class, a false
\* negative and an addition by the model.
PermCases(s) ==
    LET no_error == <<BenchmarkEntry(s, "No Error", "N/A", "N/A")>>
        omitted == <<BenchmarkEntry(s, "Error", "Omitted", "GeneralKnowledge")>>
        addition == <<BenchmarkEntry(s, "Error", "Addition", "Fast")>>
    IN  { <<<<>>, <<>>>>,
          <<no_error, <<StepResult(s, "No Error", "N/A")>>>>,
          <<omitted, <<StepResult(s, "Error", "Omitted")>>>>,
          <<addition, <<StepResult(s, "Error", "Omitted")>>>>,
          <<omitted, <<StepResult(s, "No Error", "N/A")>>>>,
          <<<<>>, <<StepResult(s, "Error", "Addition")>>>> }

InitPerm ==
    /\ \E c \in [1..MaxStep -> UNION {PermCases(s) : s \in 1..MaxStep}] :
           /\ \A s \in 1..MaxStep : c[s] \in PermCases(s)
           /\ error_dict = Side(1, MaxStep, c)
           /\ ai_steps = Side(2, MaxStep, c)
    /\ InitCommon

\* generate_error_summary called on the table with two adjacent rows
\* exchanged.
Shuffle ==
    /\ pc = "summarised"
    /\ \E i \in 1..(Len(df_errors) - 1) :
           df_errors' = [df_errors EXCEPT ![i] = df_errors[i + 1],
                                          ![i + 1] = df_errors[i]]
    /\ summary_dict' = generate_error_summary(df_errors')
    /\ UNCHANGED <<pc, error_dict, ai_steps, filtered_dict, exc>>
    /\ UNCHANGED <<analysis_vars, db_vars, rest_vars>>

NextPerm == Merge \/ Identify \/ Classify \/ Summarise \/ Shuffle

SpecPerm == InitPerm /\ [][NextPerm]_vars

\* The cells of a row that the two passes read.
Cells(r) == <<r["Benchmark"], r["Class"], r["AI Response"], r["AI Class"]>>

\* C16: the summary of a table with two rows exchanged is the summary of
\* the table, so every count and rate is the same for every order of the
\* rows; and two rows of a table with the same cells carry the same
\* Identification and Classification, whatever rows stand beside them.
C16_RowOrderIndependent ==
    /\ [][(pc = "summarised" /\ pc' = "summarised") => summary_dict' = summary_dict]_vars
    /\ [](Classified =>
            \A i, j \in DOMAIN df_errors :
                Cells(df_errors[i]) = Cells(df_errors[j]) =>
                    /\ df_errors[i]["Identification"] = df_errors[j]["Identification"]
                    /\ df_errors[i]["Classification"] = df_errors[j]["Classification"])

\* C16 witness: a summarised table whose rows are out of step order, with
\* two rows of equal cells apart from each other and a row of another label
\* between them.
C16_Witness ==
    /\ pc = "summarised"
    /\ Len(df_errors) = 3
    /\ df_errors[1]["Step"] > df_errors[2]["Step"]
    /\ Cells(df_errors[1]) = Cells(df_errors[3])
    /\ df_errors[1]["Identification"] = FN
    /\ df_errors[2]["Identification"] = TP
    /\ summary_dict = generate_error_summary(df_errors)

----------------------------------------------------------------------------
(* evaluate_lab_notes followed by EvaluationAnalyzer.run_complete_analysis, *)
(* as test_lab_note_standalone_evaluation calls them: one run per eval set, *)
(* the results written to all_eval_sets_all_runs.json and read back.  The   *)
(* file holds string keys and numbers, which json.dump and json.load give   *)
(* back unchanged.  The charts and the timing table are not modelled.       *)

\* Largest number of eval sets (rows of the benchmark csv).
MaxEvalSets == 2

MEAN_COLS ==
    { "Classification Accuracy",
      "Accuracy",
      "Precision (Positive Predictive Value)",
      "Recall (Sensitivity, True Positive Rate)",
      "Specificity (True Negative Rate)",
      "F1 Score",
      "Balanced Accuracy",
      "False Positive Rate",
      "False Negative Rate",
      "False Discovery Rate",
      "False Omission Rate",
      "Positive Predictive Value",
      "Negative Predictive Value" }

\* The benchmark list of an eval set: an omitted step and a faultless one.
AnalysisBenchmark ==
    <<BenchmarkEntry(1, "Error", "Omitted", "GeneralKnowledge"),
      BenchmarkEntry(2, "No Error", "N/A", "N/A")>>

\* What the model may answer for an eval set: both steps right, both wrong,
\* the error found under another class, and no step at all.
AnalysisAISteps ==
    { <<StepResult(1, "Error", "Omitted"), StepResult(2, "No Error", "N/A")>>,
      <<StepResult(1, "No Error", "N/A"), StepResult(2, "Error", "Omitted")>>,
      <<StepResult(1, "Error", "Addition"), StepResult(2, "No Error", "N/A")>>,
      <<>> }

InitAnalysis ==
    /\ error_dict = AnalysisBenchmark
    /\ ai_steps \in AnalysisAISteps
    /\ InitCommon

\* evaluator.py lines 468-473: the result of the run is appended unless the
\* run returned None.
Collect ==
    /\ pc \in {"done", "failed"}
    /\ all_results' =
           IF pc = "done"
           THEN Append(all_results, [eval_set |-> index + 1, run |-> 1,
                                     summary_dict |-> summary_dict,
                                     filtered_dict |-> filtered_dict])
           ELSE all_results
    /\ index' = index + 1
    /\ pc' = "collected"
    /\ UNCHANGED <<eval_vars, final_metrics, db_vars, rest_vars>>

\* evaluator.py line 459: the next row of the csv, and the start of its run.
NextEvalSet ==
    /\ pc = "collected"
    /\ index < MaxEvalSets
    /\ error_dict' = AnalysisBenchmark
    /\ ai_steps' \in AnalysisAISteps
    /\ df_errors' = <<>>
    /\ summary_dict' = NoSummary
    /\ filtered_dict' = NoSummary
    /\ exc' = "none"
    /\ pc' = "start"
    /\ UNCHANGED <<analysis_vars, db_vars, rest_vars>>

\* Sum of column col over the first n rows.
RECURSIVE SumColumn(_, _, _)
SumColumn(rows, col, n) ==
    IF n = 0 THEN Zero ELSE FracAdd(SumColumn(rows, col, n - 1), rows[n][col])

\* eval_analysis_data.py lines 158-183, for a non-empty list: a row per
\* result and a last row of sums (per replicate) and means.
process_evaluation_data(json_data) ==
    LET rows == [i \in DOMAIN json_data |->
                    json_data[i].summary_dict
                    @@ ("inputs_experiment_name" :> json_data[i].eval_set)
                    @@ ("replicate_num" :> json_data[i].run)]
        columns == UNION {DOMAIN rows[i] : i \in DOMAIN rows}
        num_rep == Cardinality({rows[i]["replicate_num"] : i \in DOMAIN rows})
        summary_row ==
            [col \in columns |->
                IF col = "inputs_experiment_name" THEN "Summary"
                ELSE IF col = "replicate_num" THEN "All"
                ELSE IF col \in MEAN_COLS
                THEN FracDiv(SumColumn(rows, col, Len(rows)), Whole(Len(rows)))
                ELSE FracDiv(SumColumn(rows, col, Len(rows)), Whole(num_rep))]
    IN  rows \o <<summary_row>>

\* eval_analysis_run.py lines 214-228 (_get_final_metrics).
get_final_metrics(df_with_summary) ==
    LET metrics_cols == {"Accuracy",
                         "Precision (Positive Predictive Value)",
                         "Recall (Sensitivity, True Positive Rate)"}
        available_metrics == metrics_cols \cap DOMAIN df_with_summary[1]
    IN  IF available_metrics = {} THEN <<>>
        ELSE [col \in available_metrics |->
                 df_with_summary[Len(df_with_summary)][col]]

\* evaluator.py lines 492-496 and run_complete_analysis on the file.  With
\* no result the frame has no column and df["replicate_num"] raises KeyError.
Analyse ==
    /\ pc = "collected"
    /\ IF all_results = <<>>
       THEN pc' = "analysis failed" /\ exc' = "KeyError" /\ UNCHANGED final_metrics
       ELSE /\ final_metrics' = get_final_metrics(process_evaluation_data(all_results))
            /\ pc' = "analysed"
            /\ UNCHANGED exc
    /\ UNCHANGED <<error_dict, ai_steps, df_errors, summary_dict, filtered_dict>>
    /\ UNCHANGED <<index, all_results, db_vars, rest_vars>>

NextAnalysis ==
    \/ Merge \/ Identify \/ Classify \/ Summarise \/ Prune
    \/ Collect \/ NextEvalSet \/ Analyse

SpecAnalysis == InitAnalysis /\ [][NextAnalysis]_vars

\* C19 (as claimed): the mapping that run_complete_analysis returns has an
\* entry for the accuracy, the precision, the recall and the F1 score.
C19_FourMetricsReturned ==
    pc = "analysed" =>
        { "Accuracy",
          "Precision (Positive Predictive Value)",
          "Recall (Sensitivity, True Positive Rate)",
          "F1 Score" } \subseteq DOMAIN final_metrics

----------------------------------------------------------------------------
(* The loops of evaluate_lab_notes, evaluator.py lines 456-504: for every   *)
(* row of the csv, num_runs runs of _run_single_evaluation (the actions     *)
(* Merge to Prune above, or an exception before them), the results of the   *)
(* row appended to all_results, and the combined file written at the end.   *)
(* The per-row files of lines 475-486 are not modelled.                     *)

\* Largest num_runs.
MaxRuns == 2

\* all_eval_sets_all_runs.json has not been written.
NotWritten == [written |-> FALSE, content |-> <<>>]

\* The file after json.dump(results, f).
Written(results) == [written |-> TRUE, content |-> results]

\* What the model answers in a run: both steps right, or no step at all (the
\* run then fails in _process_errors_dataframes).
RunAISteps ==
    { <<StepResult(1, "Error", "Omitted"), StepResult(2, "No Error", "N/A")>>,
      <<>> }

InitRuns ==
    /\ pc = "rows"
    /\ num_runs \in 0..MaxRuns
    /\ total_eval_sets \in 0..MaxEvalSets
    /\ run = 0
    /\ eval_set_results = <<>>
    /\ final_output_file = NotWritten
    /\ log = {}
    /\ EvalIdle
    /\ AnalysisIdle
    /\ DbIdle
    /\ UploadIdle
    /\ CreateIdle
    /\ FilesIdle
    /\ EvalsetIdle
    /\ StatsIdle
    /\ ConverterIdle

\* Lines 459-466: the next row of the csv.
BeginRow ==
    /\ pc = "rows"
    /\ index < total_eval_sets
    /\ eval_set_results' = <<>>
    /\ run' = 1
    /\ pc' = "runs"
    /\ UNCHANGED <<num_runs, total_eval_sets, final_output_file, log>>
    /\ UNCHANGED <<eval_vars, analysis_vars, db_vars, notes_others>>

\* Lines 468-469 and 330-354: the next run of the row begins; the lab note
\* generation or the error extraction may raise before the tables exist.
BeginRun ==
    /\ pc = "runs"
    /\ run <= num_runs
    /\ error_dict' = AnalysisBenchmark
    /\ df_errors' = <<>>
    /\ summary_dict' = NoSummary
    /\ filtered_dict' = NoSummary
    /\ \/ /\ ai_steps' \in RunAISteps
          /\ exc' = "none"
          /\ pc' = "start"
       \/ /\ ai_steps' = <<>>
          /\ exc' = "FileNotFoundError"
          /\ pc' = "failed"
    /\ UNCHANGED <<analysis_vars, db_vars, rest_vars>>

\* Mutant of CollectRun: a failed run ends the runs of its row.
CollectRun_breaks ==
    /\ pc \in {"done", "failed"}
    /\ IF pc = "done"
       THEN /\ eval_set_results' =
                   Append(eval_set_results,
                          [eval_set |-> index + 1, run |-> run,
                           summary_dict |-> summary_dict,
                           filtered_dict |-> filtered_dict])
            /\ run' = run + 1
            /\ UNCHANGED log
       ELSE /\ log' = log \cup {<<index + 1, run>>}
            /\ run' = num_runs + 1
            /\ UNCHANGED eval_set_results
    /\ pc' = "runs"
    /\ UNCHANGED <<num_runs, total_eval_sets, final_output_file>>
    /\ UNCHANGED <<eval_vars, analysis_vars, db_vars, notes_others>>

\* Lines 378-393 and 469-471: a failed run is logged and returns None, the
\* result of a successful one is appended to the results of the row.
CollectRun ==
    /\ pc \in {"done", "failed"}
    /\ IF pc = "done"
       THEN /\ eval_set_results' =
                   Append(eval_set_results,
                          [eval_set |-> index + 1, run |-> run,
                           summary_dict |-> summary_dict,
                           filtered_dict |-> filtered_dict])
            /\ UNCHANGED log
       ELSE /\ log' = log \cup {<<index + 1, run>>}
            /\ UNCHANGED eval_set_results
    /\ run' = run + 1
    /\ pc' = "runs"
    /\ UNCHANGED <<num_runs, total_eval_sets, final_output_file>>
    /\ UNCHANGED <<eval_vars, analysis_vars, db_vars, notes_others>>

\* Line 473: all_results.extend(eval_set_results), after the last run.
EndEvalSet ==
    /\ pc = "runs"
    /\ run > num_runs
    /\ all_results' = all_results \o eval_set_results
    /\ index' = index + 1
    /\ pc' = "rows"
    /\ UNCHANGED <<final_metrics, notes_vars>>
    /\ UNCHANGED <<eval_vars, db_vars, notes_others>>

\* Lines 492-504: the combined file is written (a failure to write is logged
\* and ignored) and all_results returned.
WriteFinal ==
    /\ pc = "rows"
    /\ index >= total_eval_sets
    /\ \/ final_output_file' = Written(all_results)
       \/ final_output_file' = NotWritten
    /\ pc' = "complete"
    /\ UNCHANGED <<num_runs, total_eval_sets, run, eval_set_results, log>>
    /\ UNCHANGED <<eval_vars, analysis_vars, db_vars, notes_others>>

NextRuns ==
    \/ Merge \/ Identify \/ Classify \/ Summarise \/ Prune
    \/ BeginRow \/ BeginRun \/ CollectRun \/ EndEvalSet \/ WriteFinal

SpecRuns == InitRuns /\ [][NextRuns]_vars

\* The (row, run) pair of each result, in the order of the list.
RunsOf(results) == [i \in DOMAIN results |-> <<results[i].eval_set, results[i].run>>]

\* Row order, and run order within a row.
Before(a, b) == a[1] < b[1] \/ (a[1] = b[1] /\ a[2] < b[2])

\* C25: a failed run is left out and stops nothing.  The results are in row
\* order and within a row in run order, with run numbers up to num_runs (so
\* at most num_runs for a row); when the call returns, every run of every row
\* has either its result in the list or its failure in the log, never both;
\* and the combined file is written only when all rows are done, with the
\* returned list as its content.
C25_FailedRunsSkipped ==
    LET runs == RunsOf(all_results)
    IN  /\ \A i, j \in DOMAIN runs : i < j => Before(runs[i], runs[j])
        /\ \A i \in DOMAIN runs : runs[i][2] \in 1..num_runs
        /\ pc = "complete" =>
               /\ Range(runs) \cup log = (1..total_eval_sets) \X (1..num_runs)
               /\ Range(runs) \cap log = {}
        /\ final_output_file.written =>
               /\ pc = "complete"
               /\ index = total_eval_sets
               /\ final_output_file = Written(all_results)

\* A failed run was followed by successful runs in the same row and in a
\* later row, and the combined file was written.
C25_Witness ==
    /\ pc = "complete"
    /\ final_output_file = Written(all_results)
    /\ \E f \in log :
           /\ \E i \in DOMAIN all_results :
                  all_results[i].eval_set = f[1] /\ all_results[i].run > f[2]
           /\ \E i \in DOMAIN all_results : all_results[i].eval_set > f[1]

----------------------------------------------------------------------------
(* insert_performance_session of qc_memory_agent/database_utils.py.        *)
(*                                                                         *)
(* The database is a record of its three tables.  performance_data and     *)
(* raw_files are sequences of rows, the id of a row being its position     *)
(* (INTEGER PRIMARY KEY AUTOINCREMENT, and nothing here deletes a row);    *)
(* raw_file_to_session is the set of its (performance_id, raw_file_id)     *)
(* pairs, which the table keeps UNIQUE.  database is what is committed,    *)
(* transaction what the connection sees between BEGIN IMMEDIATE and the    *)
(* commit or rollback.  A gradient is a number of ten-thousandths of a     *)
(* minute.  The argument is a Python value: a number is a fraction, a      *)
(* string [str |-> s], a bool [bool |-> b], None [none |-> TRUE], a list    *)
(* [list |-> sequence], a tuple [tuple |-> sequence] and a dict a function  *)
(* from its keys.  Every statement may fail with sqlite3.Error.  An exception *)
(* that is neither DatabaseError nor sqlite3.Error leaves the function     *)
(* without a return value and is not modelled.                             *)

\* Largest number of raw files of a session.
MaxFiles == 2

\* 0.001 minutes.
GRADIENT_TOLERANCE == 10

MAX_PERFORMANCE_RATING == 5

NoTransaction == <<>>

Abs(x) == IF x < 0 THEN 0 - x ELSE x

\* InstrumentNormalizer.normalize on the instrument names of the inputs.
normalize(instrument) ==
    IF instrument = "" THEN instrument
    ELSE IF instrument = "TIMS02" THEN "tims2"
    ELSE instrument

FileData ==
    [file_name : {"a.d", "b.d"},
     instrument_id : {"TIMS02", "tims3"},
     gradient : {439980, 439985, 210000}]

\* The lists of at most n raw files.
RECURSIVE FileLists(_)
FileLists(n) ==
    IF n = 0 THEN {<<>>}
    ELSE FileLists(n - 1) \cup
         {Append(l, f) : l \in {m \in FileLists(n - 1) : Len(m) = n - 1}, f \in FileData}

None == [none |-> TRUE]

\* A session with the three fields.
Session(rating, raw_files) ==
    [performance_status |-> Whole(1), performance_rating |-> rating,
     performance_comment |-> Str("fine"), raw_files |-> raw_files]

\* The dict d without key k.
Without(d, k) == [j \in DOMAIN d \ {k} |-> d[j]]

\* What a caller may pass for the rating: integers inside and outside the
\* range, a float between two integers, True, a string and None.
WideRatings ==
    { Whole(0), Whole(MAX_PERFORMANCE_RATING), [num |-> -1, den |-> 1],
      Frac(7, 2), Bool(TRUE), Str("4"), None }

\* What a caller may pass for raw_files besides a list of files.
WideRawFiles ==
    { None, [tuple |-> <<CHOOSE f \in FileData : TRUE>>], Str("a.d") }

\* Arguments that differ from a valid session in one respect: no dict, a
\* field left out, another value for the rating or for raw_files.
WideSessions ==
    LET files == [list |-> <<CHOOSE f \in FileData : TRUE>>]
        valid == Session(Whole(4), files)
    IN  {None, <<>>, Str("session"), files}
        \cup {Without(valid, k) : k \in DOMAIN valid}
        \cup {Session(rating, files) : rating \in WideRatings}
        \cup {Session(Whole(4), raw_files) : raw_files \in WideRawFiles}

\* The arguments of the call: a rating inside or outside the range, with or
\* without a comment, with up to MaxFiles raw files; and the wide ones.
Sessions ==
    UNION {
        { Session(rating, [list |-> files]),
          Without(Session(rating, [list |-> files]), "performance_comment") } :
        rating \in {Whole(4), Whole(MAX_PERFORMANCE_RATING + 1)},
        files \in FileLists(MaxFiles) }
    \cup WideSessions

\* The database before the call: the empty tables, or one session with the
\* raw file "a.d".
InitialDatabases ==
    { [performance_data |-> <<>>, raw_files |-> <<>>, raw_file_to_session |-> {}],
      [performance_data |->
           <<[performance_status |-> Whole(1), performance_rating |-> Whole(4),
              performance_comment |-> Str("good performance")]>>,
       raw_files |->
           <<[file_name |-> "a.d", instrument_id |-> "tims2", gradient |-> 439980]>>,
       raw_file_to_session |-> {<<1, 1>>}] }

InitDb ==
    /\ pc = "call"
    /\ database \in InitialDatabases
    /\ database_before = database
    /\ transaction = NoTransaction
    /\ session_data \in Sessions
    /\ performance_id = 0
    /\ file_ids = <<>>
    /\ result = <<>>
    /\ EvalIdle
    /\ AnalysisIdle
    /\ RestIdle

\* isinstance(v, dict), isinstance(v, list), isinstance(v, (int, float)).
IsPyDict(v) == IsDict(v) /\ DOMAIN v \notin {{"none"}, {"list"}, {"tuple"}}
IsPyList(v) == DOMAIN v = {"list"}
IsPyNumber(v) == DOMAIN v \in {{"num", "den"}, {"bool"}}

\* bool(v).
Truthy(v) ==
    IF IsPyDict(v) THEN DOMAIN v # {}
    ELSE IF DOMAIN v = {"none"} THEN FALSE
    ELSE IF DOMAIN v = {"list"} THEN v.list # <<>>
    ELSE IF DOMAIN v = {"tuple"} THEN v.tuple # <<>>
    ELSE IF DOMAIN v = {"str"} THEN v.str # ""
    ELSE IF DOMAIN v = {"bool"} THEN v.bool
    ELSE v.num # 0

\* The number a bool or a number compares as.
NumberOf(v) == IF DOMAIN v = {"bool"} THEN Whole(IF v.bool THEN 1 ELSE 0) ELSE v

\* The session data that the error message of line 232 describes: as
\* validate_session_data, with a rating that is an integer.
WellFormed(data) ==
    /\ Truthy(data) /\ IsPyDict(data)
    /\ "raw_files" \in DOMAIN data /\ Truthy(data["raw_files"])
    /\ IsPyList(data["raw_files"])
    /\ {"performance_status", "performance_rating", "performance_comment"}
           \subseteq DOMAIN data
    /\ IsPyNumber(data["performance_rating"])
    /\ NumberOf(data["performance_rating"]).den = 1
    /\ FracLeq(Zero, NumberOf(data["performance_rating"]))
    /\ FracLeq(NumberOf(data["performance_rating"]), Whole(MAX_PERFORMANCE_RATING))

\* _validate_session_data, lines 189-236: TRUE when validation passes.
validate_session_data(data) ==
    /\ Truthy(data) /\ IsPyDict(data)
    /\ "raw_files" \in DOMAIN data /\ Truthy(data["raw_files"])
    /\ IsPyList(data["raw_files"])
    /\ {"performance_status", "performance_rating", "performance_comment"}
           \subseteq DOMAIN data
    /\ IsPyNumber(data["performance_rating"])
    /\ FracLeq(Zero, NumberOf(data["performance_rating"]))
    /\ FracLeq(NumberOf(data["performance_rating"]), Whole(MAX_PERFORMANCE_RATING))

\* The return value of a failed call.
Failure(error_code) == [success |-> FALSE, error_code |-> error_code]

\* Lines 566-573: validation, then _normalize_file_instruments in place.
Validate ==
    /\ pc = "call"
    /\ IF validate_session_data(session_data)
       THEN /\ session_data' =
                   [session_data EXCEPT !["raw_files"].list =
                       [i \in DOMAIN @ |->
                           [@[i] EXCEPT !.instrument_id = normalize(@)]]]
            /\ pc' = "validated"
            /\ UNCHANGED result
       ELSE /\ result' = Failure("VALIDATION_ERROR")
            /\ pc' = "returned"
            /\ UNCHANGED session_data
    /\ UNCHANGED <<database, transaction, performance_id, file_ids, database_before>>
    /\ UNCHANGED <<eval_vars, analysis_vars, rest_vars>>

\* Lines 616-640: conn.rollback(), then the except clause that returns.
Rollback(error_code) ==
    /\ transaction' = NoTransaction
    /\ result' = Failure(error_code)
    /\ pc' = "returned"
    /\ UNCHANGED <<database, session_data, performance_id, file_ids, database_before>>

\* Lines 575-577: get_db_connection and BEGIN IMMEDIATE.
Begin ==
    /\ pc = "validated"
    /\ \/ /\ transaction' = database
          /\ pc' = "begun"
          /\ UNCHANGED <<database, session_data, performance_id, file_ids,
                         result, database_before>>
       \/ Rollback("DATABASE_ERROR")
       \/ Rollback("UNEXPECTED_ERROR")
    /\ UNCHANGED <<eval_vars, analysis_vars, rest_vars>>

\* Line 580, _insert_performance_record (lines 248-264).
InsertPerformanceRecord ==
    /\ pc = "begun"
    /\ \/ /\ transaction' =
                 [transaction EXCEPT !.performance_data =
                     Append(@, [k \in DOMAIN session_data \ {"raw_files"} |->
                                   session_data[k]])]
          /\ performance_id' = Len(transaction.performance_data) + 1
          /\ pc' = "files"
          /\ UNCHANGED <<database, session_data, file_ids, result, database_before>>
       \/ Rollback("DATABASE_ERROR")
       \/ Rollback("UNEXPECTED_ERROR")
    /\ UNCHANGED <<eval_vars, analysis_vars, rest_vars>>

\* The ids of the raw_files rows of table with the given file name.
Existing(table, file_name) ==
    {id \in DOMAIN table : table[id].file_name = file_name}

\* _get_or_create_raw_file on the open connection (lines 291-315): the
\* raw_files table after the call.
upsert_raw_file(table, file_data) ==
    IF Existing(table, file_data.file_name) # {}
    THEN LET id == CHOOSE i \in Existing(table, file_data.file_name) : TRUE
             instrument_match == table[id].instrument_id = file_data.instrument_id
             gradient_match ==
                 Abs(table[id].gradient - file_data.gradient) < GRADIENT_TOLERANCE
         IN  IF instrument_match /\ gradient_match THEN table
             ELSE [table EXCEPT ![id] =
                      [@ EXCEPT !.instrument_id = file_data.instrument_id,
                                !.gradient = file_data.gradient]]
    ELSE Append(table, file_data)

\* Mutant of raw_file_action: a row that is reused within the tolerance is
\* reported as updated.
raw_file_action_exact_only(table, file_data) ==
    IF Existing(table, file_data.file_name) # {}
    THEN LET id == CHOOSE i \in Existing(table, file_data.file_name) : TRUE
         IN  IF /\ table[id].instrument_id = file_data.instrument_id
                /\ table[id].gradient = file_data.gradient
             THEN "found_exact_match"
             ELSE "updated"
    ELSE "created"

\* The action that _get_or_create_raw_file reports (lines 346-351, 365-367
\* and 397-399).
raw_file_action(table, file_data) ==
    IF Existing(table, file_data.file_name) # {}
    THEN LET id == CHOOSE i \in Existing(table, file_data.file_name) : TRUE
         IN  IF /\ table[id].instrument_id = file_data.instrument_id
                /\ Abs(table[id].gradient - file_data.gradient) < GRADIENT_TOLERANCE
             THEN "found_exact_match"
             ELSE "updated"
    ELSE "created"

\* Mutant of ProcessFile: the file is committed at once, as on a connection
\* of its own.
ProcessFile_commits ==
    /\ pc = "files"
    /\ Len(file_ids) < Len(session_data["raw_files"].list)
    /\ LET file_data == session_data["raw_files"].list[Len(file_ids) + 1]
           table == upsert_raw_file(transaction.raw_files, file_data)
       IN  \/ /\ transaction' = [transaction EXCEPT !.raw_files = table]
              /\ database' = [transaction EXCEPT !.raw_files = table]
              /\ file_ids' = Append(file_ids,
                                 CHOOSE i \in Existing(table, file_data.file_name) : TRUE)
              /\ file_actions' =
                     Append(file_actions,
                            raw_file_action(transaction.raw_files, file_data))
              /\ UNCHANGED <<pc, session_data, performance_id, result,
                             database_before>>
           \/ Rollback("DATABASE_ERROR") /\ UNCHANGED file_actions
    /\ UNCHANGED <<eval_vars, analysis_vars, files_others>>

\* Lines 581-583: one turn of the loop of _process_raw_files (lines 427-435).
\* A sqlite3.Error inside _get_or_create_raw_file becomes a DatabaseError.
ProcessFile ==
    /\ pc = "files"
    /\ Len(file_ids) < Len(session_data["raw_files"].list)
    /\ LET file_data == session_data["raw_files"].list[Len(file_ids) + 1]
           table == upsert_raw_file(transaction.raw_files, file_data)
       IN  \/ /\ transaction' = [transaction EXCEPT !.raw_files = table]
              /\ file_ids' = Append(file_ids,
                                 CHOOSE i \in Existing(table, file_data.file_name) : TRUE)
              /\ file_actions' =
                     Append(file_actions,
                            raw_file_action(transaction.raw_files, file_data))
              /\ UNCHANGED <<pc, database, session_data, performance_id, result,
                             database_before>>
           \/ Rollback("DATABASE_ERROR") /\ UNCHANGED file_actions
    /\ UNCHANGED <<eval_vars, analysis_vars, files_others>>

\* Lines 589-591, _link_files_to_session (INSERT OR IGNORE).
LinkFiles ==
    /\ pc = "files"
    /\ Len(file_ids) = Len(session_data["raw_files"].list)
    /\ \/ /\ transaction' =
                 [transaction EXCEPT !.raw_file_to_session =
                     @ \cup {<<performance_id, file_ids[i]>> : i \in DOMAIN file_ids}]
          /\ pc' = "linked"
          /\ UNCHANGED <<database, session_data, performance_id, file_ids,
                         result, database_before>>
       \/ Rollback("UNEXPECTED_ERROR")
    /\ UNCHANGED <<eval_vars, analysis_vars, rest_vars>>

\* Lines 593-614 and 641-642: the commit and the successful return.
Commit ==
    /\ pc = "linked"
    /\ \/ /\ database' = transaction
          /\ transaction' = NoTransaction
          /\ result' = [success |-> TRUE,
                        data |-> [performance_id |-> performance_id,
                                  raw_file_ids |-> file_ids]]
          /\ pc' = "returned"
          /\ UNCHANGED <<session_data, performance_id, file_ids, database_before>>
       \/ Rollback("UNEXPECTED_ERROR")
    /\ UNCHANGED <<eval_vars, analysis_vars, rest_vars>>

NextDb ==
    \/ Validate \/ Begin \/ InsertPerformanceRecord
    \/ ProcessFile \/ LinkFiles \/ Commit

SpecDb == InitDb /\ [][NextDb]_vars

\* C20: after a call that returned success the committed database holds one
\* more performance_data row, the session's, a raw_files row for every file
\* of the session and a link from the new session to each; after a call
\* that returned failure the committed database is the one before the call.
C20_AllOrNothing ==
    pc = "returned" =>
        IF result.success
        THEN /\ database.performance_data =
                    Append(database_before.performance_data,
                           [k \in DOMAIN session_data \ {"raw_files"} |-> session_data[k]])
             /\ \A i \in DOMAIN session_data["raw_files"].list :
                    \E id \in DOMAIN database.raw_files :
                        /\ database.raw_files[id].file_name
                               = session_data["raw_files"].list[i].file_name
                        /\ <<Len(database.performance_data), id>>
                               \in database.raw_file_to_session
        ELSE database = database_before

\* C20 witness: a call on a database that holds a session fails after it
\* inserted the session and went through both files.
C20_Witness ==
    /\ pc = "returned"
    /\ ~result.success
    /\ result.error_code = "UNEXPECTED_ERROR"
    /\ performance_id = 2
    /\ Len(file_ids) = 2
    /\ file_ids[1] # file_ids[2]
    /\ Len(database.raw_files) = 1

\* No two rows of the table have the same file_name.
NoDuplicateNames(table) ==
    \A i, j \in DOMAIN table : table[i].file_name = table[j].file_name => i = j

\* What holds between the raw_files table before (old) and after (new) a
\* successful _get_or_create_raw_file(file_data) that returned file_id and
\* action.
RawFilePostcondition(old, new, file_data, file_id, action) ==
    LET reusable ==
            {i \in Existing(old, file_data.file_name) :
                /\ old[i].instrument_id = file_data.instrument_id
                /\ Abs(old[i].gradient - file_data.gradient) < GRADIENT_TOLERANCE}
    IN  /\ Existing(new, file_data.file_name) = {file_id}
        /\ new[file_id].instrument_id = file_data.instrument_id
        /\ \/ new[file_id].gradient = file_data.gradient
           \/ /\ action = "found_exact_match"
              /\ Abs(new[file_id].gradient - file_data.gradient) < GRADIENT_TOLERANCE
        /\ action \in {"created", "found_exact_match", "updated"}
        /\ action = "created" <=> Existing(old, file_data.file_name) = {}
        /\ action = "found_exact_match" <=> reusable # {}
        /\ action = "found_exact_match" => new = old
        /\ action = "created" => Len(new) = Len(old) + 1
        /\ action = "updated" => Len(new) = Len(old)
        /\ \A i \in DOMAIN old \ {file_id} : new[i] = old[i]

----------------------------------------------------------------------------
\* C22 (as claimed): the call gets past validation only for a dictionary with
\* a non-empty list raw_files, the three performance fields and an integer
\* rating between 0 and 5; for every other argument it returns success False
\* with error_code VALIDATION_ERROR and the database is as before the call.
C22_OnlyWellFormedAccepted ==
    pc # "call" =>
        IF WellFormed(session_data)
        THEN ~(pc = "returned" /\ "error_code" \in DOMAIN result
               /\ result.error_code = "VALIDATION_ERROR")
        ELSE /\ pc = "returned"
             /\ ~result.success
             /\ result.error_code = "VALIDATION_ERROR"
             /\ database = database_before

(* insert_performance_session of database_agent/server.py.  The tables are *)
(* those of database_agent/create_db.py: a raw file has the column         *)
(* instrument.  The function commits the performance_data row before it    *)
(* turns to the files, every file is written and committed on a connection *)
(* of its own (get_or_create_raw_file_expert), and the links are a second  *)
(* transaction; transaction stays empty, every action is one committed     *)
(* transaction or one that is rolled back.  server.py has its own          *)
(* GRADIENT_TOLERANCE (line 24) and InstrumentNormalizer (lines 321-361),  *)
(* equal to those of database_utils.py.                                    *)

ServerFileData ==
    [file_name : {"a.d", "b.d"},
     instrument : {"TIMS02", "tims3"},
     gradient : {439980, 439985, 210000}]

\* The lists of at most n raw files.
RECURSIVE ServerFileLists(_)
ServerFileLists(n) ==
    IF n = 0 THEN {<<>>}
    ELSE ServerFileLists(n - 1) \cup
         {Append(l, f) : l \in {m \in ServerFileLists(n - 1) : Len(m) = n - 1},
                         f \in ServerFileData}

ServerSessions ==
    { [performance_status |-> 1, performance_rating |-> 4,
       performance_comment |-> "fine", raw_files |-> files] :
        files \in ServerFileLists(MaxFiles) }

ServerInitialDatabases ==
    { [performance_data |-> <<>>, raw_files |-> <<>>, raw_file_to_session |-> {}],
      [performance_data |->
           <<[performance_status |-> 1, performance_rating |-> 4,
              performance_comment |-> "good performance"]>>,
       raw_files |->
           <<[file_name |-> "a.d", instrument |-> "tims2", gradient |-> 439980]>>,
       raw_file_to_session |-> {<<1, 1>>}] }

InitServer ==
    /\ pc = "call"
    /\ database \in ServerInitialDatabases
    /\ database_before = database
    /\ transaction = NoTransaction
    /\ session_data \in ServerSessions
    /\ performance_id = 0
    /\ file_ids = <<>>
    /\ result = <<>>
    /\ EvalIdle
    /\ AnalysisIdle
    /\ RestIdle

\* The return value of a failed call of server.py: no error code.
ServerFailure == [success |-> FALSE]

\* Lines 406-413: the check of the argument and the normalisation in place.
ServerValidate ==
    /\ pc = "call"
    /\ IF session_data["raw_files"] # <<>>
       THEN /\ session_data' =
                   [session_data EXCEPT !["raw_files"] =
                       [i \in DOMAIN @ |->
                           [@[i] EXCEPT !.instrument = normalize(@)]]]
            /\ pc' = "validated"
            /\ UNCHANGED result
       ELSE /\ result' = ServerFailure
            /\ pc' = "returned"
            /\ UNCHANGED session_data
    /\ UNCHANGED <<database, transaction, performance_id, file_ids, database_before>>
    /\ UNCHANGED <<eval_vars, analysis_vars, rest_vars>>

\* Lines 415-432: BEGIN IMMEDIATE, the performance_data insert and its
\* commit; a sqlite3.Error is rolled back and returned (lines 476-481).
ServerInsertPerformance ==
    /\ pc = "validated"
    /\ \/ /\ database' =
                 [database EXCEPT !.performance_data =
                     Append(@, [k \in DOMAIN session_data \ {"raw_files"} |->
                                   session_data[k]])]
          /\ performance_id' = Len(database.performance_data) + 1
          /\ pc' = "files"
          /\ UNCHANGED result
       \/ /\ result' = ServerFailure
          /\ pc' = "returned"
          /\ UNCHANGED <<database, performance_id>>
    /\ UNCHANGED <<transaction, session_data, file_ids, database_before>>
    /\ UNCHANGED <<eval_vars, analysis_vars, rest_vars>>

\* The ids of the rows of table with the given file name.
ServerExisting(table, file_name) ==
    {id \in DOMAIN table : table[id].file_name = file_name}

\* get_or_create_raw_file_expert, lines 262-308: the raw_files table after
\* a call that succeeded.
server_upsert_raw_file(table, file_data) ==
    IF ServerExisting(table, file_data.file_name) # {}
    THEN LET id == CHOOSE i \in ServerExisting(table, file_data.file_name) : TRUE
         IN  IF /\ table[id].instrument = file_data.instrument
                /\ Abs(table[id].gradient - file_data.gradient) < GRADIENT_TOLERANCE
             THEN table
             ELSE [table EXCEPT ![id] =
                      [@ EXCEPT !.instrument = file_data.instrument,
                                !.gradient = file_data.gradient]]
    ELSE Append(table, file_data)

\* Lines 437-446: one turn of the loop.  The helper commits the file on its
\* own connection; when it reports a failure the function returns at once.
ServerProcessFile ==
    /\ pc = "files"
    /\ Len(file_ids) < Len(session_data["raw_files"])
    /\ LET file_data == session_data["raw_files"][Len(file_ids) + 1]
           table == server_upsert_raw_file(database.raw_files, file_data)
       IN  \/ /\ database' = [database EXCEPT !.raw_files = table]
              /\ file_ids' = Append(file_ids,
                                 CHOOSE i \in ServerExisting(table, file_data.file_name) : TRUE)
              /\ UNCHANGED <<pc, result>>
           \/ /\ result' = ServerFailure
              /\ pc' = "returned"
              /\ UNCHANGED <<database, file_ids>>
    /\ UNCHANGED <<transaction, session_data, performance_id, database_before>>
    /\ UNCHANGED <<eval_vars, analysis_vars, rest_vars>>

\* Lines 448-474: BEGIN IMMEDIATE, the links, the commit and the return; a
\* sqlite3.Error is rolled back and returned (lines 476-481).
ServerLinkFiles ==
    /\ pc = "files"
    /\ Len(file_ids) = Len(session_data["raw_files"])
    /\ \/ /\ database' =
                 [database EXCEPT !.raw_file_to_session =
                     @ \cup {<<performance_id, file_ids[i]>> : i \in DOMAIN file_ids}]
          /\ result' = [success |-> TRUE,
                        performance_id |-> performance_id,
                        raw_file_ids |-> file_ids]
       \/ /\ result' = ServerFailure
          /\ UNCHANGED database
    /\ pc' = "returned"
    /\ UNCHANGED <<transaction, session_data, performance_id, file_ids, database_before>>
    /\ UNCHANGED <<eval_vars, analysis_vars, rest_vars>>

NextServer ==
    ServerValidate \/ ServerInsertPerformance \/ ServerProcessFile \/ ServerLinkFiles

SpecServer == InitServer /\ [][NextServer]_vars

\* C21 (as claimed): after a call of server.py's insert_performance_session
\* that returned failure the database holds no row, update or link that the
\* call made.
C21_NothingRemainsOnFailure ==
    (pc = "returned" /\ ~result.success) => database = database_before


(***************************************************************************)
(* upload_video_and_wait of documentation_agent.py.  Time is counted in     *)
(* whole seconds since start_time; the timeout is a Python value (None or a *)
(* number).  Uploading, sleeping and asking for the file take time, and the *)
(* service decides the state of the file.                                   *)
(***************************************************************************)

\* The longest time the model follows a call.
MaxElapsed == 4

\* video_file.state.name.
FileStates == {"PROCESSING", "ACTIVE", "FAILED"}

\* The timeout arguments: none, zero, a negative and two positive ones.
Timeouts == {None, Whole(0), [num |-> -1, den |-> 1], Whole(1), Whole(3)}

InitUpload ==
    /\ pc = "call"
    /\ timeout \in Timeouts
    /\ check_interval \in 1..2
    /\ video_file = ""
    /\ elapsed = 0
    /\ raised = ""
    /\ EvalIdle
    /\ AnalysisIdle
    /\ DbIdle
    /\ CreateIdle
    /\ NotesIdle
    /\ FilesIdle
    /\ EvalsetIdle
    /\ StatsIdle
    /\ ConverterIdle

\* Lines 92-97: the path is tested, start_time is taken.
StartUpload ==
    /\ pc = "call"
    /\ \E exists \in BOOLEAN :
           IF exists
           THEN pc' = "started" /\ UNCHANGED raised
           ELSE pc' = "raised" /\ raised' = "FileNotFoundError"
    /\ UNCHANGED <<timeout, check_interval, video_file, elapsed>>
    /\ UNCHANGED <<eval_vars, analysis_vars, db_vars, upload_others>>

\* Line 100: genai.upload_file returns a file in some state after some time,
\* or raises (lines 108-110 log and raise again).
UploadFile ==
    /\ pc = "started"
    /\ \/ \E state \in FileStates, took \in 0..1 :
              /\ video_file' = state
              /\ elapsed' = took
              /\ pc' = "loop"
              /\ UNCHANGED raised
       \/ /\ pc' = "raised"
          /\ raised' = "Exception"
          /\ UNCHANGED <<video_file, elapsed>>
    /\ UNCHANGED <<timeout, check_interval>>
    /\ UNCHANGED <<eval_vars, analysis_vars, db_vars, upload_others>>

\* _check_timeout, lines 46-49: TRUE when it raises.
check_timeout(time_since_start, t) ==
    Truthy(t) /\ ~FracLeq(Whole(time_since_start), t)

\* Lines 103-104 and 107-113: the loop test, then _check_timeout inside the
\* loop, or _check_processing_failed and the return after it.
LoopTest ==
    /\ pc = "loop"
    /\ IF video_file = "PROCESSING"
       THEN IF check_timeout(elapsed, timeout)
            THEN pc' = "raised" /\ raised' = "TimeoutError"
            ELSE pc' = "sleep" /\ UNCHANGED raised
       ELSE IF video_file = "FAILED"
            THEN pc' = "raised" /\ raised' = "ValueError"
            ELSE pc' = "returned" /\ UNCHANGED raised
    /\ UNCHANGED <<timeout, check_interval, video_file, elapsed>>
    /\ UNCHANGED <<eval_vars, analysis_vars, db_vars, upload_others>>

\* Lines 105-106: time.sleep(check_interval) and genai.get_file.
Sleep ==
    /\ pc = "sleep"
    /\ \/ \E state \in FileStates, took \in 0..1 :
              /\ elapsed + check_interval + took <= MaxElapsed
              /\ elapsed' = elapsed + check_interval + took
              /\ video_file' = state
              /\ pc' = "loop"
              /\ UNCHANGED raised
       \/ /\ pc' = "raised"
          /\ raised' = "Exception"
          /\ UNCHANGED <<video_file, elapsed>>
    /\ UNCHANGED <<timeout, check_interval>>
    /\ UNCHANGED <<eval_vars, analysis_vars, db_vars, upload_others>>

NextUpload == StartUpload \/ UploadFile \/ LoopTest \/ Sleep

SpecUpload == InitUpload /\ [][NextUpload]_vars

\* C23 (as claimed): with a timeout other than None the call does not go on
\* polling a file that is still PROCESSING more than timeout seconds after the
\* upload started (it raises TimeoutError instead of sleeping again); it
\* raises ValueError only for a FAILED file and returns only a file that is
\* neither PROCESSING nor FAILED.
C23_TimeoutEndsPolling ==
    /\ (pc = "sleep" /\ DOMAIN timeout # {"none"})
           => FracLeq(Whole(elapsed), timeout)
    /\ (pc = "raised" /\ raised = "ValueError") => video_file = "FAILED"
    /\ pc = "returned" => video_file \notin {"PROCESSING", "FAILED"}


(***************************************************************************)
(* create_database of qc_memory_agent/create_db.py.  database is the file   *)
(* database.db: NoFile, or the committed rows of each table that exists.    *)
(* transaction is what the open connection sees.  A CREATE TABLE is         *)
(* committed at once (sqlite3 opens its implicit transaction only before an *)
(* INSERT); a connection that is dropped without commit loses its inserts.  *)
(* Every statement may fail with sqlite3.Error.                             *)
(***************************************************************************)

\* The calls the model follows.
MaxCalls == 8

\* DATABASE_PATH does not exist.
NoFile == [no_file |-> TRUE]

\* Lines 105-108, 118-129 and 140-143: the sample rows.
sessions ==
    <<[performance_status |-> Whole(1), performance_rating |-> Whole(4),
       performance_comment |-> Str("good performance")],
      [performance_status |-> Whole(0), performance_rating |-> Whole(0),
       performance_comment |-> Str("High mass error")]>>
raw_files_data ==
    <<[file_name |-> "21296.d", instrument_id |-> "tims2", gradient |-> 439980],
      [file_name |-> "21203.d", instrument_id |-> "tims2", gradient |-> 439980]>>
raw_files_to_session_data == {<<1, 1>>, <<2, 2>>}

\* The columns of raw_files, lines 84-89, and the columns that the INSERT of
\* lines 130-136 names.
raw_files_columns == {"id", "file_name", "instrument_id", "gradient"}
raw_files_insert_columns == {"file_name", "instrument", "gradient"}

InitCreate ==
    /\ pc = "start"
    /\ database = NoFile
    /\ transaction = NoTransaction
    /\ calls = 0
    /\ db_exists = FALSE
    /\ session_data = <<>>
    /\ performance_id = 0
    /\ file_ids = <<>>
    /\ result = <<>>
    /\ database_before = <<>>
    /\ EvalIdle
    /\ AnalysisIdle
    /\ UploadIdle
    /\ NotesIdle
    /\ FilesIdle
    /\ EvalsetIdle
    /\ StatsIdle
    /\ ConverterIdle

\* What the actions of create_database leave alone.
create_rest == <<session_data, performance_id, file_ids, result, database_before>>

\* The call ends with an exception: the connection is dropped, its
\* uncommitted inserts are lost.
RaiseCreate ==
    /\ transaction' = NoTransaction
    /\ pc' = "raised"
    /\ UNCHANGED <<database, calls, db_exists>>

\* Lines 66-70: db_exists is read, the connection is opened.
CallCreate ==
    /\ pc \in {"start", "returned", "raised"}
    /\ calls < MaxCalls
    /\ calls' = calls + 1
    /\ db_exists' = (database # NoFile)
    /\ transaction' = NoTransaction
    /\ pc' = IF database # NoFile THEN "close" ELSE "create performance_data"
    /\ UNCHANGED <<database, create_rest>>
    /\ UNCHANGED <<eval_vars, analysis_vars, create_others>>

\* Lines 72-103: one CREATE TABLE IF NOT EXISTS, committed at once.
CreateTable(table, rows, next) ==
    /\ pc = "create " \o table
    /\ \/ /\ database' =
                 IF database = NoFile THEN [t \in {table} |-> rows]
                 ELSE [t \in DOMAIN database \cup {table} |->
                          IF t \in DOMAIN database THEN database[t] ELSE rows]
          /\ transaction' = NoTransaction
          /\ pc' = next
          /\ UNCHANGED <<calls, db_exists>>
       \/ RaiseCreate
    /\ UNCHANGED create_rest
    /\ UNCHANGED <<eval_vars, analysis_vars, create_others>>

\* Lines 109-115: the sample sessions are inserted inside the implicit
\* transaction.
InsertSessions ==
    /\ pc = "insert sessions"
    /\ \/ /\ transaction' = [database EXCEPT !.performance_data = sessions]
          /\ pc' = "insert raw_files"
          /\ UNCHANGED <<database, calls, db_exists>>
       \/ RaiseCreate
    /\ UNCHANGED create_rest
    /\ UNCHANGED <<eval_vars, analysis_vars, create_others>>

\* Lines 130-136: the INSERT names the column instrument; the statement
\* raises sqlite3.OperationalError unless raw_files has every column named.
\* Lines 144-155 (the links and the commit) follow only when it succeeds.
InsertRawFiles ==
    /\ pc = "insert raw_files"
    /\ IF raw_files_insert_columns \subseteq raw_files_columns
       THEN /\ database' =
                   [transaction EXCEPT !.raw_files = raw_files_data,
                                       !.raw_file_to_session =
                                            raw_files_to_session_data]
            /\ transaction' = NoTransaction
            /\ pc' = "close"
            /\ UNCHANGED <<calls, db_exists>>
       ELSE RaiseCreate
    /\ UNCHANGED create_rest
    /\ UNCHANGED <<eval_vars, analysis_vars, create_others>>

\* Line 160: conn.close().
CloseCreate ==
    /\ pc = "close"
    /\ pc' = "returned"
    /\ transaction' = NoTransaction
    /\ UNCHANGED <<database, calls, db_exists, create_rest>>
    /\ UNCHANGED <<eval_vars, analysis_vars, create_others>>

NextCreate ==
    \/ CallCreate
    \/ CreateTable("performance_data", <<>>, "create raw_files")
    \/ CreateTable("raw_files", <<>>, "create raw_file_to_session")
    \/ CreateTable("raw_file_to_session", {}, "insert sessions")
    \/ InsertSessions \/ InsertRawFiles \/ CloseCreate

SpecCreate == InitCreate /\ [][NextCreate]_vars

\* The file with the three tables and the sample rows.
SampleDatabase ==
    [performance_data |-> sessions, raw_files |-> raw_files_data,
     raw_file_to_session |-> raw_files_to_session_data]

\* C24 (as claimed): after any sequence of create_database calls a database
\* file that exists holds the three tables with the two sample sessions, the
\* two sample raw files and the two links.
C24_ExistingFileHoldsSamples ==
    (pc \in {"returned", "raised"} /\ database # NoFile)
        => database = SampleDatabase


(***************************************************************************)
(* _patched_evaluate_eval_set of eval_protocol_finding/custom_evaluator.py  *)
(* (eval_video_analyzer_agent/custom_evaluator.py has the same text).  The  *)
(* eval cases and the metrics are numbered; an evaluation result is its     *)
(* overall_eval_status and whether it has an overall_score: the evaluators  *)
(* of both files return EvaluationResult() for an eval case without         *)
(* invocations, whose status is NOT_EVALUATED and whose score is None.      *)
(***************************************************************************)

\* Largest number of eval cases and of metrics.
MaxCases == 3
MaxMetrics == 2

\* What evaluate_invocations may return.
EvaluationResults ==
    { [overall_eval_status |-> "PASSED", has_score |-> TRUE],
      [overall_eval_status |-> "FAILED", has_score |-> TRUE],
      [overall_eval_status |-> "NOT_EVALUATED", has_score |-> FALSE] }

InitEvalSet ==
    /\ pc = "evaluate"
    /\ num_cases \in 0..MaxCases
    /\ num_metrics \in 0..MaxMetrics
    /\ evaluations = <<>>
    /\ failures = <<>>
    /\ eval_raised = ""
    /\ EvalIdle
    /\ AnalysisIdle
    /\ DbIdle
    /\ UploadIdle
    /\ CreateIdle
    /\ NotesIdle
    /\ FilesIdle
    /\ StatsIdle
    /\ ConverterIdle

\* The eval case and the metric of the n-th evaluation, in loop order.
CaseOf(n) == ((n - 1) \div num_metrics) + 1
MetricOf(n) == ((n - 1) % num_metrics) + 1

\* Lines 581-608: one turn of the inner loop.  The failure entry formats
\* overall_score with :.3f, which raises TypeError for None.
EvaluateMetric ==
    /\ pc = "evaluate"
    /\ Len(evaluations) < num_cases * num_metrics
    /\ \E evaluation_result \in EvaluationResults :
           LET n == Len(evaluations) + 1
           IN  /\ evaluations' = Append(evaluations, evaluation_result)
               /\ IF evaluation_result.overall_eval_status = "PASSED"
                  THEN UNCHANGED <<pc, failures, eval_raised>>
                  ELSE IF evaluation_result.has_score
                  THEN /\ failures' = Append(failures, <<CaseOf(n), MetricOf(n)>>)
                       /\ UNCHANGED <<pc, eval_raised>>
                  ELSE /\ pc' = "raised"
                       /\ eval_raised' = "TypeError"
                       /\ UNCHANGED failures
    /\ UNCHANGED <<num_cases, num_metrics>>
    /\ UNCHANGED <<eval_vars, analysis_vars, db_vars, evalset_others>>

\* Lines 610-611, after the loops.
Decide ==
    /\ pc = "evaluate"
    /\ Len(evaluations) = num_cases * num_metrics
    /\ IF failures # <<>>
       THEN pc' = "raised" /\ eval_raised' = "AssertionError"
       ELSE pc' = "returned" /\ UNCHANGED eval_raised
    /\ UNCHANGED <<num_cases, num_metrics, evaluations, failures>>
    /\ UNCHANGED <<eval_vars, analysis_vars, db_vars, evalset_others>>

NextEvalSetCheck == EvaluateMetric \/ Decide

SpecEvalSet == InitEvalSet /\ [][NextEvalSetCheck]_vars

\* The (eval case, metric) pairs whose result is not PASSED.
NotPassed ==
    { <<CaseOf(n), MetricOf(n)>> : n \in
        {m \in DOMAIN evaluations : evaluations[m].overall_eval_status # "PASSED"} }

\* C27 (as claimed): the call ends only after every metric of every eval
\* case was evaluated; it raises AssertionError, and nothing else, exactly
\* when some result is not PASSED, with one failure entry for each such
\* (eval case, metric) pair, and returns when every result is PASSED.
C27_AllEvaluatedBeforeOutcome ==
    pc \in {"returned", "raised"} =>
        /\ Len(evaluations) = num_cases * num_metrics
        /\ pc = "raised" <=> NotPassed # {}
        /\ pc = "raised" =>
               /\ eval_raised = "AssertionError"
               /\ Range(failures) = NotPassed
               /\ Len(failures) = Cardinality(NotPassed)


(***************************************************************************)
(* ProtocolTitleRougeEvaluator.evaluate_invocations, lines 224-280 of       *)
(* eval_protocol_finding/custom_evaluator.py, called several times at once  *)
(* on one event loop.  A call gives way to the others at each await, that   *)
(* is once for every invocation pair (the title extraction); the update of  *)
(* the class attributes has no await and is one step.  A call is its two    *)
(* list lengths and the locals of _process_invocation_pairs; a score is 0   *)
(* or 1 and a pair has status PASSED when its score is 1.                   *)
(***************************************************************************)

\* Largest number of calls and largest length of an invocation list.
MaxEvaluations == 2
MaxInvocations == 2

Min(a, b) == IF a < b THEN a ELSE b

\* The lengths of actual_invocations and expected_invocations: equal, or
\* one list longer than the other.
InvocationLengths ==
    {<<n, n>> : n \in 0..MaxInvocations}
    \cup {<<MaxInvocations, MaxInvocations - 1>>, <<MaxInvocations - 1, MaxInvocations>>}

InitStats ==
    /\ pc = "evaluating"
    /\ cumulative_total_videos = 0
    /\ cumulative_passed_count = 0
    /\ cumulative_total_score = 0
    /\ \E n \in 1..MaxEvaluations :
           invocations \in
               [1..n -> {[actual_invocations |-> l[1], expected_invocations |-> l[2],
                          per_invocation_results |-> <<>>, total_score |-> 0,
                          passed_count |-> 0, state |-> "pairs"] :
                         l \in InvocationLengths}]
    /\ EvalIdle
    /\ AnalysisIdle
    /\ DbIdle
    /\ UploadIdle
    /\ CreateIdle
    /\ NotesIdle
    /\ FilesIdle
    /\ EvalsetIdle
    /\ ConverterIdle

\* Lines 298-304: one turn of the loop over zip(actual, expected) in call c.
EvaluateSingleInvocation(c) ==
    /\ invocations[c].state = "pairs"
    /\ Len(invocations[c].per_invocation_results)
           < Min(invocations[c].actual_invocations, invocations[c].expected_invocations)
    /\ \E score \in 0..1 :
           invocations' =
               [invocations EXCEPT
                    ![c].per_invocation_results = Append(@, score),
                    ![c].total_score = @ + score,
                    ![c].passed_count = IF score = 1 THEN @ + 1 ELSE @]
    /\ UNCHANGED <<pc, cumulative_total_videos, cumulative_passed_count,
                   cumulative_total_score>>
    /\ UNCHANGED <<eval_vars, analysis_vars, db_vars, stats_others>>

\* Lines 262-264 and 369-375, after the loop of call c:
\* _update_cumulative_stats(len(actual_invocations), passed_count, total_score).
UpdateCumulativeStats(c) ==
    /\ invocations[c].state = "pairs"
    /\ Len(invocations[c].per_invocation_results)
           = Min(invocations[c].actual_invocations, invocations[c].expected_invocations)
    /\ cumulative_total_videos' =
           cumulative_total_videos + invocations[c].actual_invocations
    /\ cumulative_passed_count' = cumulative_passed_count + invocations[c].passed_count
    /\ cumulative_total_score' = cumulative_total_score + invocations[c].total_score
    /\ invocations' = [invocations EXCEPT ![c].state = "returned"]
    /\ UNCHANGED pc
    /\ UNCHANGED <<eval_vars, analysis_vars, db_vars, stats_others>>

NextStats ==
    \E c \in DOMAIN invocations :
        EvaluateSingleInvocation(c) \/ UpdateCumulativeStats(c)

SpecStats == InitStats /\ [][NextStats]_vars

\* Sums over the calls 1..n: the pairs scored, the pairs PASSED, the scores.
RECURSIVE PairsScored(_)
PairsScored(n) ==
    IF n = 0 THEN 0
    ELSE PairsScored(n - 1) + Len(invocations[n].per_invocation_results)

RECURSIVE SumOf(_, _)
SumOf(scores, n) == IF n = 0 THEN 0 ELSE SumOf(scores, n - 1) + scores[n]

RECURSIVE ScoresSum(_)
ScoresSum(n) ==
    IF n = 0 THEN 0
    ELSE ScoresSum(n - 1)
         + SumOf(invocations[n].per_invocation_results,
                 Len(invocations[n].per_invocation_results))

\* C28 (as claimed): when all the interleaved calls have returned, the class
\* attributes hold the number of invocation pairs that the calls scored, the
\* number of those with status PASSED (score 1), and the sum of their scores.
C28_NoLostUpdate ==
    (\A c \in DOMAIN invocations : invocations[c].state = "returned") =>
        /\ cumulative_total_videos = PairsScored(Len(invocations))
        /\ cumulative_passed_count = ScoresSum(Len(invocations))
        /\ cumulative_total_score = ScoresSum(Len(invocations))


(***************************************************************************)
(* The eval-set converter, eval_set_converter.py lines 209-347: a run reads *)
(* the names in benchmark_data.csv, goes through the eval cases of the      *)
(* input file and appends the new records to the csv.  A record is its      *)
(* eval_set_name; an eval case is the name in its benchmark data ("" when   *)
(* it has none), whether it has a conversation, and whether the other       *)
(* required fields (protocol, video_path, error_dict) come out non-empty.   *)
(***************************************************************************)

\* Largest number of eval cases of an input file, and the number of csv
\* records up to which another run is followed.
MaxEvalCases == 2
MaxRecords == 3

EvalCases ==
    { [eval_set_name |-> "s1", conversation |-> TRUE, fields |-> TRUE],
      [eval_set_name |-> "s2", conversation |-> TRUE, fields |-> TRUE],
      [eval_set_name |-> "s1", conversation |-> TRUE, fields |-> FALSE],
      [eval_set_name |-> "s1", conversation |-> FALSE, fields |-> TRUE],
      [eval_set_name |-> "", conversation |-> TRUE, fields |-> TRUE] }

\* The lists of at most n eval cases.
RECURSIVE EvalCaseLists(_)
EvalCaseLists(n) ==
    IF n = 0 THEN {<<>>}
    ELSE EvalCaseLists(n - 1) \cup
         {Append(l, c) : l \in {m \in EvalCaseLists(n - 1) : Len(m) = n - 1},
                         c \in EvalCases}

InitConverter ==
    /\ pc = "main"
    /\ benchmark_csv = <<>>
    /\ existing_eval_sets = {}
    /\ eval_cases = <<>>
    /\ newly_extracted_data = <<>>
    /\ EvalIdle
    /\ AnalysisIdle
    /\ DbIdle
    /\ UploadIdle
    /\ CreateIdle
    /\ NotesIdle
    /\ FilesIdle
    /\ EvalsetIdle
    /\ StatsIdle

\* Lines 326-330 and 307-314: the names of the csv are read, the input file
\* is loaded.
StartConverter ==
    /\ pc = "main"
    /\ Len(benchmark_csv) < MaxRecords
    /\ existing_eval_sets' = Range(benchmark_csv)
    /\ eval_cases' \in EvalCaseLists(MaxEvalCases)
    /\ newly_extracted_data' = <<>>
    /\ pc' = "extract"
    /\ UNCHANGED benchmark_csv
    /\ UNCHANGED <<eval_vars, analysis_vars, db_vars, converter_others>>

\* _process_single_eval_case, lines 209-281: TRUE when the case gives a
\* record, its name being then the name of the case.
process_single_eval_case(eval_case, existing) ==
    /\ eval_case.conversation
    /\ ~(eval_case.eval_set_name # "" /\ eval_case.eval_set_name \in existing)
    /\ eval_case.eval_set_name # ""
    /\ eval_case.fields

\* Lines 316-319: one turn of the loop over the eval cases.  The cases done
\* are those that were removed from the head of eval_cases.
ProcessEvalCase ==
    /\ pc = "extract"
    /\ eval_cases # <<>>
    /\ newly_extracted_data' =
           IF process_single_eval_case(Head(eval_cases), existing_eval_sets)
           THEN Append(newly_extracted_data, Head(eval_cases).eval_set_name)
           ELSE newly_extracted_data
    /\ eval_cases' = Tail(eval_cases)
    /\ UNCHANGED <<pc, benchmark_csv, existing_eval_sets>>
    /\ UNCHANGED <<eval_vars, analysis_vars, db_vars, converter_others>>

\* Lines 333-347: the new records are appended to the csv.
AppendRecords ==
    /\ pc = "extract"
    /\ eval_cases = <<>>
    /\ benchmark_csv' = benchmark_csv \o newly_extracted_data
    /\ pc' = "main"
    /\ UNCHANGED <<existing_eval_sets, eval_cases, newly_extracted_data>>
    /\ UNCHANGED <<eval_vars, analysis_vars, db_vars, converter_others>>

NextConverter == StartConverter \/ ProcessEvalCase \/ AppendRecords

SpecConverter == InitConverter /\ [][NextConverter]_vars

\* No element occurs twice in the sequence.
NoRepeat(s) == \A i, j \in DOMAIN s : s[i] = s[j] => i = j

\* C29 (as claimed): the records that extract_data_from_evalset collects
\* have names that are not among the existing ones and that differ from each
\* other, and no eval_set_name occurs twice in the benchmark csv.
C29_NoDuplicateEvalSets ==
    /\ Range(newly_extracted_data) \cap existing_eval_sets = {}
    /\ NoRepeat(newly_extracted_data)
    /\ NoRepeat(benchmark_csv)

====
